---- MODULE Spec2Model ----
(***************************************************************************)
(* Model of src/app.py (Fed monitoring dashboard): the cached FRED fetch   *)
(* (fetch_fred_data under st.cache_data), its normalisation of the raw     *)
(* observations, calculate_spread (join / forward fill / spread / rolling  *)
(* mean), get_signal_status, and the table and spread loops of main.       *)
(*                                                                         *)
(* Numbers are integers.  Dates are day numbers 1..MaxDate; a raw date n   *)
(* stands for the ISO string of day n.                                     *)
(***************************************************************************)
EXTENDS Integers, Sequences, FiniteSets, TLC

\* ------------------------------------------------------------------ bounds
MaxDate == 3
MaxValue == 2
MaxObs == 2
MaxTime == 3600
TickSeconds == 600
MaxRequests == 2
MaxBands == 2
MaxSessions == 2

\* --------------------------------------------------------- program constants
\* @st.cache_data(ttl=1800)
TTL == 1800
\* requests.get(url, params=params, timeout=10), in seconds
TIMEOUT == 10
\* requests.get(..., timeout=10): a request that takes longer raises Timeout
\* response.status_code == 200
HTTP_OK == 200

\* pandas NaT: the date of a row whose raw item has no "date" key while
\* other items have one.  It sorts after every date (na_position="last").
NaT == 0
\* a raw date string pd.to_datetime cannot parse
BadDate == 0 - 1
\* FRED's "." (no value), which pd.to_numeric(errors="coerce") turns into NaN
Dot == 0 - 1

Dates == 1..MaxDate
Values == 0..MaxValue

\* ------------------------------------------------------------ return values
\* fetch_fred_data returns None or a DataFrame with columns date, value.
None == [isNone |-> TRUE, rows |-> <<>>]
DataFrame(rows) == [isNone |-> FALSE, rows |-> rows]

Range(s) == {s[i] : i \in 1..Len(s)}

\* -------------------------------------------------------- raw observations
\* A raw observation is a JSON object: a function whose DOMAIN is the set of
\* its keys.
RawRows ==
    [date : Dates \cup {BadDate}, value : Values \cup {Dot}]
        \cup [date : Dates \cup {BadDate}]
        \cup [value : Values \cup {Dot}]

SeqsUpTo(S, n) == UNION {[1..k -> S] : k \in 0..n}

\* pd.DataFrame(data["observations"]).columns: the union of the items' keys
Columns(obs) == UNION {DOMAIN obs[i] : i \in 1..Len(obs)}

\* pd.to_datetime(df["date"]) raises when some present date does not parse
DateParseFails(obs) ==
    \E i \in 1..Len(obs) : "date" \in DOMAIN obs[i] /\ obs[i].date = BadDate

\* pd.to_datetime on one cell: a missing cell (NaN) becomes NaT
to_datetime(row) == IF "date" \in DOMAIN row THEN row.date ELSE NaT

\* pd.to_numeric(errors="coerce") leaves a number or NaN; dropna keeps the
\* rows whose value is a number
HasNumber(row) == "value" \in DOMAIN row /\ row.value # Dot

\* (variant: an unparsable value is replaced by zero instead of dropped)
RECURSIVE CoercedZeroFill(_)
CoercedZeroFill(obs) ==
    IF obs = <<>> THEN <<>>
    ELSE <<[date |-> to_datetime(Head(obs)),
            value |-> IF HasNumber(Head(obs)) THEN Head(obs).value ELSE 0]>>
             \o CoercedZeroFill(Tail(obs))

\* the rows left after the coercions and dropna, in the order received
RECURSIVE Coerced(_)
Coerced(obs) ==
    IF obs = <<>> THEN <<>>
    ELSE LET rest == Coerced(Tail(obs))
         IN  IF HasNumber(Head(obs))
             THEN <<[date |-> to_datetime(Head(obs)), value |-> Head(obs).value]>> \o rest
             ELSE rest

IsPermutation(p, n) == /\ p \in [1..n -> 1..n]
                       /\ \A i, j \in 1..n : p[i] = p[j] => i = j

\* df.sort_values('date', ascending=False): every ordering of the rows with
\* non-increasing dates (the default sort is not stable, so rows of equal
\* date may come out in either order); NaT rows last
sort_values_desc(rows) ==
    LET n == Len(rows)
    IN  {[i \in 1..n |-> rows[p[i]]] :
            p \in {q \in [1..n -> 1..n] :
                     /\ IsPermutation(q, n)
                     /\ \A i \in 1..n : \A j \in 1..n :
                          i < j => rows[q[i]].date >= rows[q[j]].date}}

\* --------------------------------------------------------------- responses
\* What requests.get / response.json() can give.
\*   timeout : requests.exceptions.Timeout
\*   error   : any other exception (connection error, invalid JSON)
\*   status  : a response whose status_code is code
\*   For status 200, data is the decoded JSON: hasObs says whether the key
\*   "observations" is present, obs is its list.
Timeout == [kind |-> "timeout", code |-> 0, hasObs |-> FALSE, obs |-> <<>>]
NetError == [kind |-> "error", code |-> 0, hasObs |-> FALSE, obs |-> <<>>]
Status(c) == [kind |-> "status", code |-> c, hasObs |-> FALSE, obs |-> <<>>]
NoObservationsKey == [kind |-> "status", code |-> HTTP_OK, hasObs |-> FALSE, obs |-> <<>>]
Payload(obs) == [kind |-> "status", code |-> HTTP_OK, hasObs |-> TRUE, obs |-> obs]

\* (variant: a response that is not a usable answer gives an empty frame)
FetchBodyEmptyFrame(resp) ==
    IF resp.kind = "timeout" THEN {DataFrame(<<>>)}
    ELSE IF resp.kind = "error" THEN {DataFrame(<<>>)}
    ELSE IF resp.code # HTTP_OK THEN {DataFrame(<<>>)}
    ELSE IF ~(resp.hasObs /\ Len(resp.obs) > 0) THEN {DataFrame(<<>>)}
    ELSE IF "date" \notin Columns(resp.obs) THEN {None}
    ELSE IF DateParseFails(resp.obs) THEN {None}
    ELSE IF "value" \notin Columns(resp.obs) THEN {None}
    ELSE IF Len(Coerced(resp.obs)) = 0 THEN {None}
    ELSE {DataFrame(s) : s \in sort_values_desc(Coerced(resp.obs))}
\* the body of fetch_fred_data after the request is sent: the set of values
\* it can return for the response resp
FetchBody(resp) ==
    IF resp.kind = "timeout" THEN {None}
    ELSE IF resp.kind = "error" THEN {None}
    ELSE IF resp.code # HTTP_OK THEN {None}
    ELSE IF ~(resp.hasObs /\ Len(resp.obs) > 0) THEN {None}
    ELSE IF "date" \notin Columns(resp.obs) THEN {None}
    ELSE IF DateParseFails(resp.obs) THEN {None}
    ELSE IF "value" \notin Columns(resp.obs) THEN {None}
    ELSE IF Len(Coerced(resp.obs)) = 0 THEN {None}
    ELSE {DataFrame(s) : s \in sort_values_desc(Coerced(resp.obs))}

\* fetch_fred_data(series_id, api_key, limit, start_date, end_date), the
\* undecorated function: no request is made without an api key
fetch_fred_data_unchecked(key, resp) == FetchBody(resp)
fetch_fred_data(key, resp) ==
    IF key.api_key = "" THEN {None} ELSE FetchBody(resp)

SendsRequest(key) == key.api_key # ""

\* ----------------------------------------------------------------- numbers
\* Rates, spreads and band bounds are fixed-point numbers in hundredths:
\* Hundredths(5, 33) is 5.33.  A product with an integer multiplier stays in
\* hundredths.
Hundredths(units, frac) == units * 100 + frac

\* a band bound: a finite number or float('-inf') / float('inf')
NegInf == [inf |-> 0 - 1, n |-> 0]
PosInf == [inf |-> 1, n |-> 0]
Num(n) == [inf |-> 0, n |-> Hundredths(n, 0)]
Frac(u, f) == [inf |-> 0, n |-> Hundredths(u, f)]
MinusFrac(u, f) == [inf |-> 0, n |-> 0 - Hundredths(u, f)]

\* bound <= value and value < bound, for a finite value
Leq(bound, value) == bound.inf < 0 \/ (bound.inf = 0 /\ bound.n <= value)
Lt(value, bound) == bound.inf > 0 \/ (bound.inf = 0 /\ value < bound.n)

\* ------------------------------------------------------------------ SPREADS
\* One entry of a "signals" dict: signal_name: (min_val, max_val, message).
\* The message stands for the entry's text; it is named after signal_name.
Signal(name, lo, hi) == [message |-> name, min_val |-> lo, max_val |-> hi]

\* The SPREADS dict in declaration order (a dict iterates in insertion
\* order); "signals" likewise.
SPREADS == <<
    [key |-> "SOFR-IORB", series |-> <<"SOFR", "IORB">>, multiplier |-> 1000,
     is_single_series |-> FALSE,
     signals |-> << Signal("crisis", NegInf, Num(0)),
                    Signal("warning", Num(0), Num(2)),
                    Signal("normal", Num(2), Num(10)),
                    Signal("tight", Num(10), PosInf) >>],
    [key |-> "EFFR-IORB", series |-> <<"EFFR", "IORB">>, multiplier |-> 1000,
     is_single_series |-> FALSE,
     signals |-> << Signal("tight", Num(10), PosInf),
                    Signal("normal", Num(0 - 10), Num(10)),
                    Signal("loose", NegInf, Num(0 - 10)) >>],
    [key |-> "SOFR-RRP", series |-> <<"SOFR", "RRPONTSYAWARD">>, multiplier |-> 1000,
     is_single_series |-> FALSE,
     signals |-> << Signal("stress", Num(10), PosInf),
                    Signal("normal", Num(0), Num(10)),
                    Signal("abnormal", NegInf, Num(0)) >>],
    [key |-> "DGS3MO-EFFR", series |-> <<"DGS3MO", "EFFR">>, multiplier |-> 100,
     is_single_series |-> FALSE,
     signals |-> << Signal("easing", NegInf, Num(0 - 20)),
                    Signal("neutral", Num(0 - 20), Num(20)),
                    Signal("tightening", Num(20), PosInf) >>],
    [key |-> "DGS10-DGS2", series |-> <<"DGS10", "DGS2">>, multiplier |-> 100,
     is_single_series |-> FALSE,
     signals |-> << Signal("severe_inversion", NegInf, Num(0 - 50)),
                    Signal("mild_inversion", Num(0 - 50), Num(0)),
                    Signal("normal", Num(0), Num(50)),
                    Signal("steep", Num(50), PosInf) >>],
    [key |-> "DGS10-DGS3MO", series |-> <<"DGS10", "DGS3MO">>, multiplier |-> 100,
     is_single_series |-> FALSE,
     signals |-> << Signal("strong_recession", NegInf, Num(0 - 50)),
                    Signal("recession_warning", Num(0 - 50), Num(0)),
                    Signal("normal", Num(0), Num(100)),
                    Signal("steep", Num(100), PosInf) >>],
    [key |-> "STLFSI4", series |-> <<"STLFSI4">>, multiplier |-> 1,
     is_single_series |-> TRUE,
     signals |-> << Signal("severe_stress", Frac(1, 50), PosInf),
                    Signal("elevated_stress", Frac(0, 50), Frac(1, 50)),
                    Signal("normal", MinusFrac(0, 50), Frac(0, 50)),
                    Signal("low_stress", NegInf, MinusFrac(0, 50)) >>] >>

\* --------------------------------------------------------------- classifier
\* get_signal_status's fallback text
Undetermined == "undetermined"

\* if min_val <= value < max_val
InBandUpperInclusive(value, signal) ==
    /\ signal.min_val.inf < 0 \/ (signal.min_val.inf = 0 /\ signal.min_val.n < value)
    /\ signal.max_val.inf > 0 \/ (signal.max_val.inf = 0 /\ value <= signal.max_val.n)
InBandExclusive(value, signal) ==
    /\ signal.min_val.inf < 0 \/ (signal.min_val.inf = 0 /\ signal.min_val.n < value)
    /\ signal.max_val.inf > 0 \/ (signal.max_val.inf = 0 /\ value < signal.max_val.n)
InBand(value, signal) == Leq(signal.min_val, value) /\ Lt(value, signal.max_val)

\* the loop of get_signal_status over signals.items(), first to last
RECURSIVE get_signal_status_last(_, _)
get_signal_status_last(value, signals) ==
    IF signals = <<>> THEN Undetermined
    ELSE IF InBand(value, signals[Len(signals)])
         THEN signals[Len(signals)].message
         ELSE get_signal_status_last(value, SubSeq(signals, 1, Len(signals) - 1))
\* (variant: a value no band holds gets the message of the last band)
RECURSIVE get_signal_status_nearest(_, _)
get_signal_status_nearest(value, signals) ==
    IF signals = <<>> THEN Undetermined
    ELSE IF InBand(value, Head(signals)) \/ Len(signals) = 1
         THEN Head(signals).message
         ELSE get_signal_status_nearest(value, Tail(signals))
RECURSIVE get_signal_status(_, _)
get_signal_status(value, signals) ==
    IF signals = <<>> THEN Undetermined
    ELSE IF InBand(value, Head(signals)) THEN Head(signals).message
         ELSE get_signal_status(value, Tail(signals))

\* --------------------------------------------------------- calculate_spread
\* rolling(window=4, min_periods=1)
WINDOW == 4
MIN_PERIODS == 1

\* A cell of a joined frame: a number or NaN.
NaN == [nan |-> TRUE, v |-> 0]
Cell(v) == [nan |-> FALSE, v |-> v]

\* latest_value: a number, or None for an empty frame
NoValue == [none |-> TRUE, v |-> 0]
Value(v) == [none |-> FALSE, v |-> v]

\* (None, None, None)
NoSpread == [isNone |-> TRUE, raised |-> FALSE, df |-> <<>>,
             latest_value |-> NoValue, components |-> <<>>]

\* an exception leaves calculate_spread (None.set_index: AttributeError)
Raised == [isNone |-> TRUE, raised |-> TRUE, df |-> <<>>,
           latest_value |-> NoValue, components |-> <<>>]

DatesOf(rows) == {rows[i].date : i \in 1..Len(rows)}

\* the dates of S, earliest first
RECURSIVE Ascending(_)
Ascending(S) ==
    IF S = {} THEN <<>>
    ELSE LET d == CHOOSE x \in S : \A y \in S : x <= y
         IN  <<d>> \o Ascending(S \ {d})

\* the cell of a date-indexed frame at date d (its dates are distinct)
CellAt(rows, d) ==
    IF d \in DatesOf(rows)
    THEN Cell((CHOOSE r \in Range(rows) : r.date = d).value)
    ELSE NaN

\* df1.join(df2, how='outer', rsuffix='_2'); df.columns = [series1_id,
\* series2_id]: one row per date of the union of the two indexes, sorted
\* (pandas sorts the union of two differing indexes; two equal indexes give
\* no NaN, so their order does not matter to ffill)
join_inner(rows1, rows2) ==
    LET idx == Ascending(DatesOf(rows1) \cap DatesOf(rows2))
    IN  [i \in 1..Len(idx) |->
            [date |-> idx[i], c1 |-> CellAt(rows1, idx[i]), c2 |-> CellAt(rows2, idx[i])]]
join_outer(rows1, rows2) ==
    LET idx == Ascending(DatesOf(rows1) \cup DatesOf(rows2))
    IN  [i \in 1..Len(idx) |->
            [date |-> idx[i], c1 |-> CellAt(rows1, idx[i]), c2 |-> CellAt(rows2, idx[i])]]

\* df.ffill(): down the rows, a NaN takes the last value above it
RECURSIVE bfill(_)
bfill(rows) ==
    IF Len(rows) <= 1 THEN rows
    ELSE LET rest == bfill(Tail(rows))
             cur == Head(rows)
         IN  <<[cur EXCEPT !.c1 = IF @.nan THEN rest[1].c1 ELSE @,
                           !.c2 = IF @.nan THEN rest[1].c2 ELSE @]>> \o rest
RECURSIVE ffill(_)
ffill(rows) ==
    IF Len(rows) <= 1 THEN rows
    ELSE LET init == ffill(SubSeq(rows, 1, Len(rows) - 1))
             prev == init[Len(init)]
             cur == rows[Len(rows)]
         IN  Append(init, [cur EXCEPT !.c1 = IF @.nan THEN prev.c1 ELSE @,
                                      !.c2 = IF @.nan THEN prev.c2 ELSE @])

\* df.dropna(): the rows without NaN
NoNaN(r) == ~r.c1.nan /\ ~r.c2.nan
dropna(rows) == SelectSeq(rows, NoNaN)

\* df.sort_index(ascending=False): latest date first (dates are distinct)
RECURSIVE sort_index_desc(_)
sort_index_desc(rows) ==
    IF rows = <<>> THEN <<>>
    ELSE LET i == CHOOSE k \in 1..Len(rows) :
                     \A j \in 1..Len(rows) : rows[k].date >= rows[j].date
         IN  <<rows[i]>> \o
                sort_index_desc([j \in 1..(Len(rows) - 1) |->
                                   IF j < i THEN rows[j] ELSE rows[j + 1]])

\* df['spread'] = (df[series1_id] - df[series2_id]) * multiplier
spread_of_unscaled(row, multiplier) == row.c1.v - row.c2.v
spread_of(row, multiplier) == (row.c1.v - row.c2.v) * multiplier

\* df['spread'].iloc[0] if len(df) > 0 else None
iloc_last(df) == IF Len(df) > 0 THEN Value(df[Len(df)].spread) ELSE NoValue
iloc_first(df) == IF Len(df) > 0 THEN Value(df[1].spread) ELSE NoValue

\* .rolling(window=4, min_periods=1).mean() at row i, in the order of the
\* rows: the mean of rows max(1, i - 3)..i, kept as sum and count
RollingMean(spreads, i) ==
    LET lo == IF i - WINDOW + 1 < 1 THEN 1 ELSE i - WINDOW + 1
        RECURSIVE Sum(_)
        Sum(k) == IF k < lo THEN 0 ELSE spreads[k] + Sum(k - 1)
    IN  IF i - lo + 1 >= MIN_PERIODS
        THEN [nan |-> FALSE, sum |-> Sum(i), n |-> i - lo + 1]
        ELSE [nan |-> TRUE, sum |-> 0, n |-> 1]

\* the single-series branch: df is the fetched frame, latest first
single_series_frame(rows, multiplier) ==
    LET spreads == [i \in 1..Len(rows) |-> rows[i].value * multiplier]
    IN  [i \in 1..Len(rows) |->
            [date |-> rows[i].date, value |-> rows[i].value,
             spread |-> spreads[i], ma_4w |-> RollingMean(spreads, i)]]

\* the two-series branch, from the join to the spread column
two_series_frame(rows1, rows2, multiplier) ==
    LET df == sort_index_desc(dropna(ffill(join_outer(rows1, rows2))))
    IN  [i \in 1..Len(df) |->
            [date |-> df[i].date, c1 |-> df[i].c1.v, c2 |-> df[i].c2.v,
             spread |-> spread_of(df[i], multiplier)]]

\* the frames calculate_spread builds once its fetches are known to be frames
spread_frames(spread_info, fetched) ==
    IF spread_info.is_single_series
    THEN LET df == single_series_frame(fetched[1].rows, spread_info.multiplier)
         IN  [isNone |-> FALSE, raised |-> FALSE, df |-> df,
              latest_value |-> iloc_first(df),
              components |-> [i \in 1..Len(df) |->
                                [date |-> df[i].date, value |-> df[i].value]]]
    ELSE LET df == two_series_frame(fetched[1].rows, fetched[2].rows,
                                    spread_info.multiplier)
         IN  [isNone |-> FALSE, raised |-> FALSE, df |-> df,
              latest_value |-> iloc_first(df),
              components |-> [i \in 1..Len(df) |->
                                [date |-> df[i].date, c1 |-> df[i].c1,
                                 c2 |-> df[i].c2]]]

\* calculate_spread(spread_info, ...): fetched is what fetch_fred_data
\* returned for each id of spread_info['series'], in order.  A frame method
\* called on None raises.
calculate_spread_first_only(spread_info, fetched) ==
    IF fetched[1].isNone THEN NoSpread
    ELSE IF \E i \in 1..Len(fetched) : fetched[i].isNone THEN Raised
    ELSE spread_frames(spread_info, fetched)
calculate_spread(spread_info, fetched) ==
    IF spread_info.is_single_series
    THEN IF fetched[1].isNone THEN NoSpread
         ELSE spread_frames(spread_info, fetched)
    ELSE IF fetched[1].isNone \/ fetched[2].isNone THEN NoSpread
         ELSE spread_frames(spread_info, fetched)

\* --------------------------------------------------------------------- main
\* SERIES_INFO in declaration order: the fields the table loop reads
Info(id, chart, quarterly) == [id |-> id, show_chart |-> chart, is_quarterly |-> quarterly]
SERIES_INFO == <<
    Info("WALCL", TRUE, FALSE), Info("WSHOSHO", FALSE, FALSE),
    Info("RPONTSYD", TRUE, FALSE), Info("WLCFLPCL", FALSE, FALSE),
    Info("WLCFLPCL", TRUE, FALSE), Info("WLCFLSCL", FALSE, FALSE),
    Info("WLCFLSECL", FALSE, FALSE), Info("WRESBAL", TRUE, FALSE),
    Info("WTREGEN", TRUE, FALSE), Info("RRPONTSYD", TRUE, FALSE),
    Info("MMMFFAQ027S", TRUE, TRUE), Info("WRMFNS", FALSE, FALSE),
    Info("WALCL", FALSE, FALSE) >>

\* f"{x:,.0f}" of a non-negative number of hundredths: the nearest whole
\* number, a tie going to the even one
RoundUnits(h) ==
    LET q == h \div 100
        r == h % 100
    IN  IF r < 50 THEN q
        ELSE IF r > 50 THEN q + 1
        ELSE IF q % 2 = 0 THEN q ELSE q + 1

Abs(x) == IF x < 0 THEN 0 - x ELSE x

\* format_change(change): the arrow and the formatted magnitude
format_change(change) ==
    IF change > 0 THEN [arrow |-> "up", magnitude |-> RoundUnits(Abs(change))]
    ELSE IF change < 0 THEN [arrow |-> "down", magnitude |-> RoundUnits(Abs(change))]
    ELSE [arrow |-> "none", magnitude |-> 0]

NotAvailable == [arrow |-> "N/A", magnitude |-> 0]

\* change = current_value - previous_value, of df.iloc[0] and df.iloc[1]
change_reversed(rows) == rows[2].value - rows[1].value
change_of(rows) == rows[1].value - rows[2].value

\* (variant: a single observation is reported as the current value)
table_row_single(df) ==
    IF ~df.isNone /\ Len(df.rows) >= 2
    THEN [made |-> TRUE, na |-> FALSE,
          current_value |-> df.rows[1].value, previous_value |-> df.rows[2].value,
          change |-> change_of(df.rows),
          shown_change |-> format_change(change_of(df.rows)),
          current_date |-> df.rows[1].date, previous_date |-> df.rows[2].date]
    ELSE IF ~df.isNone /\ Len(df.rows) = 1
    THEN [made |-> TRUE, na |-> FALSE,
          current_value |-> df.rows[1].value, previous_value |-> 0,
          change |-> 0, shown_change |-> format_change(0),
          current_date |-> df.rows[1].date, previous_date |-> 0]
    ELSE [made |-> TRUE, na |-> TRUE, current_value |-> 0, previous_value |-> 0,
          change |-> 0, shown_change |-> NotAvailable,
          current_date |-> 0, previous_date |-> 0]
\* the entry the table loop appends to data_list for the fetched df
table_row(df) ==
    IF ~df.isNone /\ Len(df.rows) >= 2
    THEN [made |-> TRUE, na |-> FALSE,
          current_value |-> df.rows[1].value, previous_value |-> df.rows[2].value,
          change |-> change_of(df.rows),
          shown_change |-> format_change(change_of(df.rows)),
          current_date |-> df.rows[1].date, previous_date |-> df.rows[2].date]
    ELSE [made |-> TRUE, na |-> TRUE, current_value |-> 0, previous_value |-> 0,
          change |-> 0, shown_change |-> NotAvailable,
          current_date |-> 0, previous_date |-> 0]

NoRow == [made |-> FALSE, na |-> TRUE, current_value |-> 0, previous_value |-> 0,
          change |-> 0, shown_change |-> NotAvailable,
          current_date |-> 0, previous_date |-> 0]

\* what one pass of a spread loop puts on the page for one SPREADS entry:
\*   metric  : st.metric with the value and the status message
\*   nothing : the summary column is left empty (latest_value is None)
\*   error   : st.error, the data could not be loaded
Nothing == [kind |-> "nothing", value |-> 0, status |-> ""]
ErrorBox == [kind |-> "error", value |-> 0, status |-> ""]
Metric(v, status) == [kind |-> "metric", value |-> v, status |-> status]
\* st.warning and st.info of the missing api key
Notice == [kind |-> "notice", value |-> 0, status |-> ""]

\* the record of a spread shown without a value: the loop, the entry and
\* which of its fetches returned a frame
NoFailure == [where |-> "none", key |-> "", fetched_ok |-> <<>>]
Failure(where, key, fetched) ==
    [where |-> where, key |-> key,
     fetched_ok |-> [i \in 1..Len(fetched) |-> ~fetched[i].isNone]]

\* the summary loop's body after calculate_spread returned ret
summary_output(spread_info, ret) ==
    IF ~ret.latest_value.none
    THEN Metric(ret.latest_value.v,
                get_signal_status(ret.latest_value.v, spread_info.signals))
    ELSE Nothing

\* the detail loop's body after calculate_spread returned ret; formatting a
\* latest_value of None raises TypeError
detail_raises(ret) == ~ret.isNone /\ ret.latest_value.none
detail_output(spread_info, ret) ==
    IF ~ret.isNone
    THEN Metric(ret.latest_value.v,
                get_signal_status(ret.latest_value.v, spread_info.signals))
    ELSE ErrorBox

\* ---------------------------------------------------- get_fear_greed_index
\* What requests.get(url, timeout=10) and response.json() give a provider:
\* an exception (timeout, connection error), a status code, and for status
\* 200 either a body that is not JSON (json() raises) or the decoded object.
NoData == [other |-> 0]
Raises == [kind |-> "exception", code |-> 0, valid |-> FALSE, data |-> NoData]
HttpStatus(c) == [kind |-> "status", code |-> c, valid |-> FALSE, data |-> NoData]
InvalidJson == [kind |-> "status", code |-> HTTP_OK, valid |-> FALSE, data |-> NoData]
Json(d) == [kind |-> "status", code |-> HTTP_OK, valid |-> TRUE, data |-> d]

\* a score text float() rejects (ValueError)
BadScore == 0 - 1

\* the result dict, and None.  The source texts are "CNN API",
\* "Crypto F&G" (followed by a note in Korean) and, for the text of the
\* VIX-based calculation, "VIX"; the VIX rating text is "VIX estimate".
FGNone == [isNone |-> TRUE, score |-> 0, status |-> "", rating |-> "",
           color |-> "", emoji |-> "", source |-> ""]

\* the if/elif chain on score (the same in the three branches); the emoji
\* are given by name
fg_status(score) ==
    IF score >= 75 THEN [status |-> "Extreme Greed", color |-> "#16a34a", emoji |-> "money-mouth"]
    ELSE IF score >= 55 THEN [status |-> "Greed", color |-> "#22c55e", emoji |-> "smile"]
    ELSE IF score >= 45 THEN [status |-> "Neutral", color |-> "#eab308", emoji |-> "neutral"]
    ELSE IF score >= 25 THEN [status |-> "Fear", color |-> "#f97316", emoji |-> "fearful"]
    ELSE [status |-> "Extreme Fear", color |-> "#dc2626", emoji |-> "scream"]

FGResult(score, rating, source) ==
    [isNone |-> FALSE, score |-> score, status |-> fg_status(score).status,
     rating |-> rating, color |-> fg_status(score).color,
     emoji |-> fg_status(score).emoji, source |-> source]

\* the first try block: the CNN endpoint.  FGNone stands for leaving the
\* block without a return (a failed test, or an exception that is passed).
cnn_provider(resp) ==
    IF resp.kind = "exception" THEN FGNone
    ELSE IF resp.code # HTTP_OK THEN FGNone
    ELSE IF ~resp.valid THEN FGNone
    ELSE IF "fear_and_greed" \notin DOMAIN resp.data THEN FGNone
    ELSE IF "score" \notin DOMAIN resp.data.fear_and_greed THEN FGNone
    ELSE IF resp.data.fear_and_greed.score = BadScore THEN FGNone
    ELSE IF "rating" \notin DOMAIN resp.data.fear_and_greed THEN FGNone
    ELSE FGResult(resp.data.fear_and_greed.score,
                  resp.data.fear_and_greed.rating, "CNN API")

\* (variant: the second block labels its result with the first block's source)
alternative_provider_mislabelled(resp) ==
    IF resp.kind = "exception" THEN FGNone
    ELSE IF resp.code # HTTP_OK THEN FGNone
    ELSE IF ~resp.valid THEN FGNone
    ELSE IF "data" \notin DOMAIN resp.data THEN FGNone
    ELSE IF Len(resp.data.data) = 0 THEN FGNone
    ELSE IF "value" \notin DOMAIN resp.data.data[1] THEN FGNone
    ELSE IF resp.data.data[1].value = BadScore THEN FGNone
    ELSE IF "value_classification" \notin DOMAIN resp.data.data[1] THEN FGNone
    ELSE FGResult(resp.data.data[1].value,
                  resp.data.data[1].value_classification, "CNN API")
\* the second try block: api.alternative.me
alternative_provider(resp) ==
    IF resp.kind = "exception" THEN FGNone
    ELSE IF resp.code # HTTP_OK THEN FGNone
    ELSE IF ~resp.valid THEN FGNone
    ELSE IF "data" \notin DOMAIN resp.data THEN FGNone
    ELSE IF Len(resp.data.data) = 0 THEN FGNone
    ELSE IF "value" \notin DOMAIN resp.data.data[1] THEN FGNone
    ELSE IF resp.data.data[1].value = BadScore THEN FGNone
    ELSE IF "value_classification" \notin DOMAIN resp.data.data[1] THEN FGNone
    ELSE FGResult(resp.data.data[1].value,
                  resp.data.data[1].value_classification, "Crypto F&G")

\* the score derived from the VIX (in hundredths)
vix_score(vix_value) ==
    IF vix_value <= Hundredths(12, 0) THEN 85
    ELSE IF vix_value <= Hundredths(15, 0) THEN 75
    ELSE IF vix_value <= Hundredths(20, 0) THEN 60
    ELSE IF vix_value <= Hundredths(25, 0) THEN 50
    ELSE IF vix_value <= Hundredths(30, 0) THEN 40
    ELSE IF vix_value <= Hundredths(35, 0) THEN 30
    ELSE IF vix_value <= Hundredths(40, 0) THEN 20
    ELSE 10

\* (variant: without the VIX series a neutral score is reported)
vix_provider_default(df_vix) ==
    IF ~df_vix.isNone /\ Len(df_vix.rows) > 0
    THEN FGResult(vix_score(df_vix.rows[1].value), "VIX estimate", "VIX")
    ELSE FGResult(50, "VIX estimate", "VIX")
\* the third try block: df_vix is what fetch_fred_data("VIXCLS", limit=1)
\* returned
vix_provider(df_vix) ==
    IF ~df_vix.isNone /\ Len(df_vix.rows) > 0
    THEN FGResult(vix_score(df_vix.rows[1].value), "VIX estimate", "VIX")
    ELSE FGNone

\* -------------------------------------------------- the policy-rate frame
\* policy_series.keys(), in declaration order
policy_series == <<"SOFR", "RRPONTSYAWARD", "IORB", "EFFR", "DFEDTARL", "DFEDTARU">>

\* policy_data: the series whose fetch returned a frame, in that order
RECURSIVE policy_data(_, _)
policy_data(fetched, i) ==
    IF i > Len(fetched) THEN <<>>
    ELSE (IF fetched[i].isNone THEN <<>> ELSE <<i>>) \o policy_data(fetched, i + 1)

\* combined_df = pd.DataFrame(); combined_df[series_id] = df_indexed['value']
\* for each series: the empty frame takes the index of the first Series
\* assigned to it, and every later Series is reindexed to that index (a
\* date it lacks gives NaN, a date the index lacks is left out)
assign_columns(fetched, avail) ==
    LET first == fetched[avail[1]].rows
    IN  [r \in 1..Len(first) |->
            [date |-> first[r].date,
             cols |-> [k \in 1..Len(avail) |-> CellAt(fetched[avail[k]].rows, first[r].date)]]]

\* combined_df.ffill(): down the rows as they stand
RECURSIVE ffill_columns(_)
ffill_columns(rows) ==
    IF Len(rows) <= 1 THEN rows
    ELSE LET init == ffill_columns(SubSeq(rows, 1, Len(rows) - 1))
             prev == init[Len(init)]
             cur == rows[Len(rows)]
         IN  Append(init, [cur EXCEPT !.cols = [k \in DOMAIN @ |->
                                      IF @[k].nan THEN prev.cols[k] ELSE @[k]]])

\* .dropna()
NoNaNColumn(r) == \A k \in DOMAIN r.cols : ~r.cols[k].nan
dropna_columns(rows) == SelectSeq(rows, NoNaNColumn)

\* .sort_index(ascending=True)
RECURSIVE sort_index_asc(_)
sort_index_asc(rows) ==
    IF rows = <<>> THEN <<>>
    ELSE LET i == CHOOSE k \in 1..Len(rows) :
                     \A j \in 1..Len(rows) : rows[k].date <= rows[j].date
         IN  <<rows[i]>> \o
                sort_index_asc([j \in 1..(Len(rows) - 1) |->
                                  IF j < i THEN rows[j] ELSE rows[j + 1]])

\* the block of main: no frame when no series is available; latest is
\* combined_df.iloc[-1] when the frame has a row
NoFrame == [made |-> FALSE, columns |-> <<>>, df |-> <<>>, has_latest |-> FALSE, latest |-> 0]
combined_frame(fetched) ==
    LET avail == policy_data(fetched, 1)
    IN  IF Len(avail) = 0 THEN NoFrame
        ELSE LET df == sort_index_asc(dropna_columns(ffill_columns(
                           assign_columns(fetched, avail))))
             IN  [made |-> TRUE, columns |-> avail, df |-> df,
                  has_latest |-> Len(df) > 0,
                  latest |-> IF Len(df) > 0 THEN df[Len(df)].date ELSE 0]

\* ------------------------------------------------------------ frame objects
\* A DataFrame as an object: its index, its columns and its rows.  Absent
\* is an identity no object has been created for.
ObjectIds == {"entry1", "entry2", "ret1", "ret2", "idx1", "idx2", "joined"}
Absent == [index |-> "none", columns |-> {}, rows |-> <<>>]
Fetched(frame) == [index |-> "range", columns |-> {"date", "value"}, rows |-> frame.rows]

\* st.cache_data returns to its caller an object of its own: the function's
\* return value on a miss, a new object unpickled from the stored bytes on a
\* hit; the entry is the stored bytes, here the object "entry<n>"
cache_data_return(objs, n) ==
    LET e == IF n = 1 THEN "entry1" ELSE "entry2"
        r == IF n = 1 THEN "ret1" ELSE "ret2"
    IN  [objects |-> [objs EXCEPT ![r] = objs[e]], handle |-> r]

\* df = df.set_index('date'): a new frame indexed by date; the frame it is
\* called on is left as it was
set_index_inplace(objs, h, fresh) ==
    [objects |-> [objs EXCEPT ![h] = [@ EXCEPT !.index = "date",
                                                !.columns = @ \ {"date"}]],
     handle |-> h]
set_index(objs, h, fresh) ==
    [objects |-> [objs EXCEPT ![fresh] = [objs[h] EXCEPT !.index = "date",
                                                         !.columns = @ \ {"date"}]],
     handle |-> fresh]

\* df[name] = ...: the column is added to the object df is bound to
setitem(objs, h, names) ==
    [objs EXCEPT ![h] = [@ EXCEPT !.columns = @ \cup names]]

\* df1.join(df2, how='outer', rsuffix='_2'), df.columns = [...]: a new frame
join_object(objs, h1, h2) ==
    [objs EXCEPT !["joined"] = [index |-> "date", columns |-> {"series1", "series2"},
                                rows |-> join_outer(objs[h1].rows, objs[h2].rows)]]

\* what a frame object is to code that reads df['date'] and df['value'] of
\* a fetched frame: the frame, or a KeyError
IsFetched(o) == o.index = "range" /\ o.columns = {"date", "value"}

\* ------------------------------------------------------------ the registry
\* The dicts as the script declares them: "is_single_series" is a key of
\* the STLFSI4 entry only, "is_quarterly" of the MMMFFAQ027S entry only.
DeclaredSpread(s) ==
    IF s.is_single_series THEN s
    ELSE [k \in DOMAIN s \ {"is_single_series"} |-> s[k]]
DeclaredInfo(e) ==
    IF e.is_quarterly THEN e
    ELSE [k \in DOMAIN e \ {"is_quarterly"} |-> e[k]]
Loaded ==
    [SPREADS |-> [i \in 1..Len(SPREADS) |-> DeclaredSpread(SPREADS[i])],
     SERIES_INFO |-> [i \in 1..Len(SERIES_INFO) |-> DeclaredInfo(SERIES_INFO[i])]]

\* d.get(k, default): the value, and the dict after the call
dict_setdefault(d, k, default) ==
    [value |-> IF k \in DOMAIN d THEN d[k] ELSE default,
     dict |-> IF k \in DOMAIN d THEN d ELSE [j \in DOMAIN d \cup {k} |->
                                               IF j = k THEN default ELSE d[j]]]
dict_get(d, k, default) ==
    [value |-> IF k \in DOMAIN d THEN d[k] ELSE default, dict |-> d]

\* the dicts after the table loop's body has read entry j of SERIES_INFO:
\* info[...] and info.get("show_chart", False), info.get("is_quarterly", False)
after_table_row(reg, j) ==
    [reg EXCEPT !.SERIES_INFO[j] =
        dict_get(dict_get(@, "show_chart", FALSE).dict, "is_quarterly", FALSE).dict]

\* the dicts after calculate_spread, get_signal_status, the metric and the
\* chart have read entry i of SPREADS: spread_info[...], signals.items()
\* and spread_info.get('is_single_series', False)
after_spread(reg, i) ==
    [reg EXCEPT !.SPREADS[i] = dict_get(@, "is_single_series", FALSE).dict]

\* ------------------------------------------------------------------ state
VARIABLES
    now,        \* the clock of the process, in seconds
    cache,      \* st.cache_data's store of fetch_fred_data: key -> entry
    requests,   \* per key, the number of upstream requests sent so far
    last,       \* the last call of the cached fetch_fred_data and its outcome
    cleared,    \* the keys not called since the last st.cache_data.clear()
    sessions,   \* per browser session, the call of fetch_fred_data it is in
    nResp,      \* normalisation: the response handed to the function body
    nRet,       \* normalisation: the value returned for it
    nDone,      \* normalisation: the body has run
    clsValue,   \* classifier: the value argument
    clsSignals, \* classifier: the signals argument
    clsStatus,  \* classifier: the message returned
    clsDone,    \* classifier: get_signal_status has returned
    spInfo,     \* calculate_spread: the spread_info argument
    spFetched,  \* calculate_spread: what fetch_fred_data returns to it
    spRet,      \* calculate_spread: (df, latest_value, df_components)
    spDone,     \* calculate_spread: it has returned
    pc,         \* main: the part of the page being built
    idx,        \* main: the position of the running loop
    failure,    \* main: the last spread of this pass shown without a value
    tblDf,      \* main: the frame the table loop fetched last
    tblRow,     \* main: the entry the table loop appended last
    shown,      \* main: what the spread loop put on the page last
    fgPc,       \* get_fear_greed_index: the try block it is at
    fgTried,    \* get_fear_greed_index: the providers asked and their answers
    fgRet,      \* get_fear_greed_index: the value returned
    rqPc,       \* one metric request: the step it is at
    rqInfo,     \* one metric request: the SPREADS entry asked for
    rqCalls,    \* one metric request: its fetch calls, in order
    rqWaited,   \* one metric request: seconds the pending request has waited
    rqOut,      \* one metric request: what it puts on the page
    apiKey,     \* the process: FRED_API_KEY as read from the secrets
    upstream,   \* the process: an upstream request has been performed
    registry,   \* the process: the SPREADS and SERIES_INFO dicts
    polFetched, \* policy frame: what fetch_fred_data returns per policy series
    polRet,     \* policy frame: combined_df and the row reported as latest
    polDone,    \* policy frame: the block has run
    objects,    \* computation: the frame objects, by identity
    held,       \* computation: the objects its variables are bound to
    results,    \* computation: what each run returned
    cmpKind,    \* computation: the one being run
    cmpPc       \* computation: the step it is at

cacheVars == <<now, cache, requests, last, cleared, sessions>>
normVars == <<nResp, nRet, nDone>>
clsVars == <<clsValue, clsSignals, clsStatus, clsDone>>
spVars == <<spInfo, spFetched, spRet, spDone>>
vars == <<now, cache, requests, last, cleared, sessions, nResp, nRet, nDone,
          clsValue, clsSignals, clsStatus, clsDone,
          spInfo, spFetched, spRet, spDone,
          pc, idx, failure, tblDf, tblRow, shown, fgPc, fgTried, fgRet,
          rqPc, rqInfo, rqCalls, rqWaited, rqOut, apiKey, upstream, registry,
          polFetched, polRet, polDone, objects, held, results, cmpKind, cmpPc>>
mainVars == <<pc, idx, failure, tblDf, tblRow, shown>>
fgVars == <<fgPc, fgTried, fgRet>>
rqVars == <<rqPc, rqInfo, rqCalls, rqWaited, rqOut>>
progVars == <<apiKey, upstream, registry>>
polVars == <<polFetched, polRet, polDone>>
cmpVars == <<objects, held, results, cmpKind, cmpPc>>

\* ------------------------------------------------------------------- cache
\* The arguments of a call are the cache key (st.cache_data hashes all of
\* them): (series_id, api_key, limit, start_date, end_date).
Key(sid, limit, start, end) ==
    [series_id |-> sid, api_key |-> "key", limit |-> limit,
     start_date |-> start, end_date |-> end]

\* main: the table fetch of a series and its chart fetch
TableKey == Key("WALCL", "10", "None", "None")
ChartKey == Key("WALCL", "None", "2024-01-01", "2024-12-31")
Keys == {TableKey, ChartKey}

\* the params of the request: "if start_date and end_date" passes the two
\* dates on; otherwise the window is the last 1825 days up to today, with
\* the limit
Truthy(x) == x \notin {"None", ""}
DEFAULT_START == "today - 1825 days"
DEFAULT_END == "today"
request_params(key) ==
    IF Truthy(key.start_date) /\ Truthy(key.end_date)
    THEN [series_id |-> key.series_id, api_key |-> key.api_key,
          observation_start |-> key.start_date, observation_end |-> key.end_date,
          limit |-> "absent"]
    ELSE [series_id |-> key.series_id, api_key |-> key.api_key,
          observation_start |-> DEFAULT_START, observation_end |-> DEFAULT_END,
          limit |-> key.limit]

\* main: bs_start_date and bs_end_date, the range selected in the sidebar
Selected == [start_date |-> ChartKey.start_date, end_date |-> ChartKey.end_date]

\* (variant: the series id alone is the key of an entry)
value_key_series_only(key) == key.series_id
\* st.cache_data's key of an entry: the hash of every argument of the call
value_key(key) == key

ValueKeys == {value_key(k) : k \in Keys}

\* An entry: the value stored and the time it was stored at.  args names the
\* call that computed the value; st.cache_data does not store it, it is kept
\* here to tell which call a returned value came from.
NoEntry == [present |-> FALSE, val |-> None, at |-> 0, args |-> TableKey]
Entry(v, t, key) == [present |-> TRUE, val |-> v, at |-> t, args |-> key]

\* last: made (a call has been made), its key and time, hit (served from the
\* cache), sent (upstream requests the call made), ret (the value returned)
\* prev (the entry of the key as the call found it) and cleared (the call is
\* the first one of its key since a clear)
NoCall == [made |-> FALSE, key |-> TableKey, at |-> 0, hit |-> FALSE,
           sent |-> 0, ret |-> None, prev |-> NoEntry, cleared |-> FALSE]

\* The upstream answers the cache specification draws from.
OneRow == <<[date |-> 1, value |-> 1]>>
TwoRows == <<[date |-> 2, value |-> 2], [date |-> 1, value |-> 1]>>
CacheResponses ==
    {Timeout, NetError, Status(500), NoObservationsKey, Payload(<<>>),
     Payload(<<[date |-> 1, value |-> Dot]>>), Payload(OneRow), Payload(TwoRows)}

\* st.cache_data(ttl=1800) keeps its entries in a cachetools TTLCache: an
\* entry stored at time t expires at t + ttl and is served only while
\* now < t + ttl.
IsFreshInclusive(entry, t) == entry.present /\ t - entry.at <= TTL
IsFresh(entry, t) == entry.present /\ t - entry.at < TTL

\* st.cache_data stores whatever the function returns, None included.
Stored(ret, t, key) == Entry(ret, t, key)

\* A call of the decorated fetch_fred_data that finds a fresh entry: the
\* stored value is returned and the function body does not run.
FetchHit(key) ==
    /\ IsFresh(cache[value_key(key)], now)
    /\ last' = [made |-> TRUE, key |-> key, at |-> now, hit |-> TRUE,
                sent |-> 0, ret |-> cache[value_key(key)].val,
                prev |-> cache[value_key(key)], cleared |-> key \in cleared]
    /\ cleared' = cleared \ {key}
    /\ UNCHANGED <<now, cache, requests>>

\* A call that finds no fresh entry: the body runs (one request), and its
\* return value replaces the entry of the key.
FetchMiss(key, resp) ==
    /\ ~IsFresh(cache[value_key(key)], now)
    /\ requests[key] < MaxRequests
    /\ \E ret \in fetch_fred_data(key, resp) :
         /\ cache' = [cache EXCEPT ![value_key(key)] = Stored(ret, now, key)]
         /\ last' = [made |-> TRUE, key |-> key, at |-> now, hit |-> FALSE,
                     sent |-> IF SendsRequest(key) THEN 1 ELSE 0,
                     ret |-> ret, prev |-> cache[value_key(key)],
                     cleared |-> key \in cleared]
    /\ requests' = [requests EXCEPT
                      ![key] = IF SendsRequest(key) THEN @ + 1 ELSE @]
    /\ cleared' = cleared \ {key}
    /\ UNCHANGED now

\* (variant: only the entries past their ttl are dropped)
ClearExpired ==
    /\ cache' = [k \in ValueKeys |-> IF IsFresh(cache[k], now) THEN cache[k] ELSE NoEntry]
    /\ cleared' = Keys
    /\ UNCHANGED <<now, requests, last>>
\* main: the refresh button, st.cache_data.clear()
Clear ==
    /\ cache' = [k \in ValueKeys |-> NoEntry]
    /\ cleared' = Keys
    /\ UNCHANGED <<now, requests, last>>

\* time passes
Tick ==
    /\ now + TickSeconds <= MaxTime
    /\ now' = now + TickSeconds
    /\ UNCHANGED <<cache, requests, last, cleared>>

\* Streamlit runs the script of every browser session in a thread of its
\* own; all of them share the one cache of fetch_fred_data.  A session is
\* outside a call, or inside the body of a call that missed: key is the
\* call's key, prev the entry it found, cleared whether it is the key's
\* first call since a clear.
Sessions == 1..MaxSessions
Outside == [busy |-> FALSE, key |-> TableKey, prev |-> NoEntry, cleared |-> FALSE]
Inside(key, prev, c) == [busy |-> TRUE, key |-> key, prev |-> prev, cleared |-> c]
NoSessions == [s \in Sessions |-> Outside]

NormIdle == nResp = Timeout /\ nRet = None /\ nDone = FALSE
ClsIdle == clsValue = 0 /\ clsSignals = <<>> /\ clsStatus = "" /\ clsDone = FALSE
SpIdle == spInfo = SPREADS[1] /\ spFetched = <<>> /\ spRet = NoSpread /\ spDone = FALSE
RqIdle == /\ rqPc = "idle" /\ rqInfo = SPREADS[1] /\ rqCalls = <<>>
          /\ rqWaited = 0 /\ rqOut = Nothing
PolIdle == polFetched = <<>> /\ polRet = NoFrame /\ polDone = FALSE
CmpIdle == /\ objects = [o \in ObjectIds |-> Absent] /\ held = <<>>
           /\ results = <<>> /\ cmpKind = "idle" /\ cmpPc = "idle"
ProgIdle == apiKey = "key" /\ upstream = FALSE /\ registry = Loaded
FgIdle == fgPc = "idle" /\ fgTried = <<>> /\ fgRet = FGNone
MainIdle == /\ pc = "idle" /\ idx = 1 /\ failure = NoFailure
            /\ tblDf = None /\ tblRow = NoRow /\ shown = Nothing

Init ==
    /\ now = 0
    /\ cache = [k \in ValueKeys |-> NoEntry]
    /\ requests = [k \in Keys |-> 0]
    /\ last = NoCall
    /\ cleared = {}
    /\ sessions = NoSessions
    /\ NormIdle
    /\ ClsIdle
    /\ SpIdle
    /\ MainIdle
    /\ FgIdle
    /\ RqIdle
    /\ ProgIdle
    /\ PolIdle
    /\ CmpIdle

Next ==
    \/ \E key \in Keys :
          FetchHit(key) /\ UNCHANGED <<sessions, normVars, clsVars, spVars, mainVars, fgVars, rqVars, progVars, polVars, cmpVars>>
    \/ \E key \in Keys : \E resp \in CacheResponses :
          FetchMiss(key, resp) /\ UNCHANGED <<sessions, normVars, clsVars, spVars, mainVars, fgVars, rqVars, progVars, polVars, cmpVars>>
    \/ Clear /\ UNCHANGED <<sessions, normVars, clsVars, spVars, mainVars, fgVars, rqVars, progVars, polVars, cmpVars>>
    \/ Tick /\ UNCHANGED <<sessions, normVars, clsVars, spVars, mainVars, fgVars, rqVars, progVars, polVars, cmpVars>>

Spec == Init /\ [][Next]_vars

\* ---------------------------------------------------------------- sessions
\* The cached fetch_fred_data called from several sessions at once.  A call
\* that misses runs the body outside the cache's store: the request is in
\* flight while other sessions look the key up, miss as well and send their
\* own request.  (A Streamlit release that serialises the computations of
\* one key makes the second session wait and then hit; that is the run in
\* which the second session calls after the first has finished.)  The store
\* replaces an entry as a whole, under its lock.
SessionResponses == {Timeout, Payload(OneRow), Payload(TwoRows)}

\* a session's call finds a fresh entry
SessionHit(s, key) ==
    /\ ~sessions[s].busy
    /\ FetchHit(key)
    /\ UNCHANGED sessions

\* a session's call finds no fresh entry: the body starts, the request goes
\* out
SessionStart(s, key) ==
    /\ ~sessions[s].busy
    /\ ~IsFresh(cache[value_key(key)], now)
    /\ requests[key] < MaxRequests
    /\ sessions' = [sessions EXCEPT
                      ![s] = Inside(key, cache[value_key(key)], key \in cleared)]
    /\ requests' = [requests EXCEPT
                      ![key] = IF SendsRequest(key) THEN @ + 1 ELSE @]
    /\ cleared' = cleared \ {key}
    /\ UNCHANGED <<now, cache, last>>

\* the body returns: its value replaces the entry of the key and is returned
SessionFinish(s, resp) ==
    /\ sessions[s].busy
    /\ \E ret \in fetch_fred_data(sessions[s].key, resp) :
         /\ cache' = [cache EXCEPT ![value_key(sessions[s].key)] =
                                       Stored(ret, now, sessions[s].key)]
         /\ last' = [made |-> TRUE, key |-> sessions[s].key, at |-> now,
                     hit |-> FALSE,
                     sent |-> IF SendsRequest(sessions[s].key) THEN 1 ELSE 0,
                     ret |-> ret, prev |-> sessions[s].prev,
                     cleared |-> sessions[s].cleared]
    /\ sessions' = [sessions EXCEPT ![s] = Outside]
    /\ UNCHANGED <<now, requests, cleared>>

\* a request is answered or times out (timeout=10) within one tick
SessionTick ==
    /\ \A s \in Sessions : ~sessions[s].busy
    /\ Tick
    /\ UNCHANGED sessions

NextSessions ==
    \/ \E s \in Sessions : \E key \in Keys :
          SessionHit(s, key) /\ UNCHANGED <<normVars, clsVars, spVars, mainVars, fgVars, rqVars, progVars, polVars, cmpVars>>
    \/ \E s \in Sessions : \E key \in Keys :
          SessionStart(s, key) /\ UNCHANGED <<normVars, clsVars, spVars, mainVars, fgVars, rqVars, progVars, polVars, cmpVars>>
    \/ \E s \in Sessions : \E resp \in SessionResponses :
          SessionFinish(s, resp) /\ UNCHANGED <<normVars, clsVars, spVars, mainVars, fgVars, rqVars, progVars, polVars, cmpVars>>
    \/ Clear /\ UNCHANGED <<sessions, normVars, clsVars, spVars, mainVars, fgVars, rqVars, progVars, polVars, cmpVars>>
    \/ SessionTick /\ UNCHANGED <<normVars, clsVars, spVars, mainVars, fgVars, rqVars, progVars, polVars, cmpVars>>

SpecSessions == Init /\ [][NextSessions]_vars

\* ----------------------------------------------------------- normalisation
\* The body of fetch_fred_data as a function of the response, over every
\* response with at most MaxObs raw observations.
AllResponses ==
    {Timeout, NetError, Status(500), NoObservationsKey}
        \cup {Payload(obs) : obs \in SeqsUpTo(RawRows, MaxObs)}

CacheIdle ==
    /\ now = 0
    /\ cache = [k \in ValueKeys |-> NoEntry]
    /\ requests = [k \in Keys |-> 0]
    /\ last = NoCall
    /\ cleared = {}
    /\ sessions = NoSessions

InitNormalize ==
    /\ CacheIdle
    /\ ClsIdle
    /\ SpIdle
    /\ MainIdle
    /\ FgIdle
    /\ RqIdle
    /\ ProgIdle
    /\ PolIdle
    /\ CmpIdle
    /\ nResp \in AllResponses
    /\ nRet = None
    /\ nDone = FALSE

Normalize ==
    /\ ~nDone
    /\ nRet' \in FetchBody(nResp)
    /\ nDone' = TRUE
    /\ UNCHANGED nResp

NextNormalize == Normalize /\ UNCHANGED <<cacheVars, clsVars, spVars, mainVars, fgVars, rqVars, progVars, polVars, cmpVars>>

SpecNormalize == InitNormalize /\ [][NextNormalize]_vars

\* --------------------------------------------------------------- classify
\* get_signal_status as a function of its arguments: the signals of every
\* SPREADS entry, and every list of at most MaxBands bands over BandBounds.
BandBounds == {NegInf, Num(0), Num(5), Num(10), Num(15), PosInf}
BandNames == <<"A", "B", "C", "D">>

Less(a, b) == a.inf < b.inf \/ (a.inf = 0 /\ b.inf = 0 /\ a.n < b.n)
BandRanges == {r \in BandBounds \X BandBounds : Less(r[1], r[2])}
BandLists ==
    UNION {{[i \in 1..k |-> Signal(BandNames[i], f[i][1], f[i][2])] :
              f \in [1..k -> BandRanges]} : k \in 0..MaxBands}

ClsSignalLists == {SPREADS[i].signals : i \in 1..Len(SPREADS)} \cup BandLists

FiniteBounds(signals) ==
    {signals[i].min_val.n : i \in {j \in 1..Len(signals) : signals[j].min_val.inf = 0}}
        \cup {signals[i].max_val.n : i \in {j \in 1..Len(signals) : signals[j].max_val.inf = 0}}

\* the values tried on a list: its bounds, one hundredth either side of
\* them, the middles of the whole numbers 0..15
ClsValues(signals) ==
    {b + e : b \in FiniteBounds(signals), e \in {0 - 1, 0, 1}}
        \cup {Hundredths(n, 0) : n \in {2, 7, 12}}

InitClassify ==
    /\ CacheIdle
    /\ NormIdle
    /\ SpIdle
    /\ MainIdle
    /\ FgIdle
    /\ RqIdle
    /\ ProgIdle
    /\ PolIdle
    /\ CmpIdle
    /\ clsSignals \in ClsSignalLists
    /\ clsValue \in ClsValues(clsSignals)
    /\ clsStatus = ""
    /\ clsDone = FALSE

Classify ==
    /\ ~clsDone
    /\ clsStatus' = get_signal_status(clsValue, clsSignals)
    /\ clsDone' = TRUE
    /\ UNCHANGED <<clsValue, clsSignals>>

NextClassify == Classify /\ UNCHANGED <<cacheVars, normVars, spVars, mainVars, fgVars, rqVars, progVars, polVars, cmpVars>>

SpecClassify == InitClassify /\ [][NextClassify]_vars

\* ------------------------------------------------------------------ spread
\* calculate_spread as a function of spread_info and of the frames
\* fetch_fred_data returns.  FRED gives one observation per date, so a
\* fetched frame has distinct dates; fetch_fred_data returns it latest
\* first and without NaN values.
Rates == {Hundredths(5, 30), Hundredths(5, 31), Hundredths(5, 33)}

RECURSIVE Descending(_)
Descending(S) ==
    IF S = {} THEN <<>>
    ELSE LET d == CHOOSE x \in S : \A y \in S : x >= y
         IN  <<d>> \o Descending(S \ {d})

FramesOver(V) ==
    UNION {{DataFrame([i \in 1..Cardinality(D) |->
                         [date |-> Descending(D)[i], value |-> f[Descending(D)[i]]]]) :
              f \in [D -> V]} : D \in (SUBSET Dates) \ {{}}}

FetchResults == {None} \cup FramesOver(Rates)

InitSpread ==
    /\ CacheIdle
    /\ NormIdle
    /\ ClsIdle
    /\ MainIdle
    /\ FgIdle
    /\ RqIdle
    /\ ProgIdle
    /\ PolIdle
    /\ CmpIdle
    /\ spInfo \in Range(SPREADS)
    /\ spFetched \in [1..Len(spInfo.series) -> FetchResults]
    /\ spRet = NoSpread
    /\ spDone = FALSE

CalculateSpread ==
    /\ ~spDone
    /\ spRet' = calculate_spread(spInfo, spFetched)
    /\ spDone' = TRUE
    /\ UNCHANGED <<spInfo, spFetched>>

NextSpread == CalculateSpread /\ UNCHANGED <<cacheVars, normVars, clsVars, mainVars, fgVars, rqVars, progVars, polVars, cmpVars>>

SpecSpread == InitSpread /\ [][NextSpread]_vars

\* --------------------------------------------------------------- dashboard
\* One run of main with an API key: the table loop over SERIES_INFO, the
\* summary loop over SPREADS, the detail loop over SPREADS.  Every call of
\* fetch_fred_data returns None or a frame, whatever the calls before it
\* returned.
\* A two-series definition with the multiplier 100 and the bands of
\* SOFR-IORB, as an argument of calculate_spread beside those of SPREADS
ScaledBy100 == [SPREADS[1] EXCEPT !.key = "SOFR-IORB x100", !.multiplier = 100]
TwoSeriesInfos == {s \in Range(SPREADS) : ~s.is_single_series} \cup {ScaledBy100}

InitEndToEnd ==
    /\ CacheIdle
    /\ NormIdle
    /\ ClsIdle
    /\ MainIdle
    /\ FgIdle
    /\ RqIdle
    /\ ProgIdle
    /\ PolIdle
    /\ CmpIdle
    /\ spInfo \in TwoSeriesInfos
    /\ spFetched \in [1..2 -> FramesOver(Rates)]
    /\ spRet = NoSpread
    /\ spDone = FALSE

\* the summary loop's body once calculate_spread has returned: st.metric
ShowMetric ==
    /\ spDone
    /\ shown = Nothing
    /\ summary_output(spInfo, spRet) # Nothing
    /\ shown' = summary_output(spInfo, spRet)
    /\ UNCHANGED <<pc, idx, failure, tblDf, tblRow, spVars>>

NextEndToEnd ==
    \/ CalculateSpread /\ UNCHANGED <<cacheVars, normVars, clsVars, mainVars, fgVars, rqVars, progVars, polVars, cmpVars>>
    \/ ShowMetric /\ UNCHANGED <<cacheVars, normVars, clsVars, fgVars, rqVars, progVars, polVars, cmpVars>>

SpecEndToEnd == InitEndToEnd /\ [][NextEndToEnd]_vars


ExampleA == DataFrame(<<[date |-> 3, value |-> Hundredths(5, 33)],
                        [date |-> 1, value |-> Hundredths(5, 30)]>>)
ExampleB == DataFrame(<<[date |-> 2, value |-> Hundredths(5, 31)]>>)
Falling == DataFrame(<<[date |-> 2, value |-> Hundredths(5, 30)],
                       [date |-> 1, value |-> Hundredths(5, 33)]>>)
PassResults == {None, ExampleA, ExampleB, Falling}
ChartResults == {None, ExampleA}

InitDashboard ==
    /\ CacheIdle
    /\ NormIdle
    /\ ClsIdle
    /\ SpIdle
    /\ FgIdle
    /\ RqIdle
    /\ ProgIdle
    /\ PolIdle
    /\ CmpIdle
    /\ pc = "table" /\ idx = 1 /\ failure = NoFailure
    /\ tblDf = None /\ tblRow = NoRow /\ shown = Nothing

\* the body of the table loop for SERIES_INFO[idx]; df is the table fetch
\* (limit=10), chart the chart fetch made when show_chart is set
TableRow(df, chart) ==
    /\ pc = "table"
    /\ chart.isNone \/ SERIES_INFO[idx].show_chart
    /\ tblDf' = df
    /\ tblRow' = table_row(df)
    /\ IF idx < Len(SERIES_INFO)
       THEN idx' = idx + 1 /\ pc' = pc
       ELSE idx' = 1 /\ pc' = "summary"
    /\ UNCHANGED <<failure, shown, spVars>>

\* the body of the summary loop for the idx-th entry of SPREADS
SummaryMetric(fetched) ==
    /\ pc = "summary"
    /\ DOMAIN fetched = 1..Len(SPREADS[idx].series)
    /\ LET ret == calculate_spread(SPREADS[idx], fetched)
       IN  /\ spInfo' = SPREADS[idx]
           /\ spFetched' = fetched
           /\ spRet' = ret
           /\ spDone' = TRUE
           /\ IF ret.raised
              THEN pc' = "aborted" /\ UNCHANGED <<idx, shown, failure>>
              ELSE /\ shown' = summary_output(SPREADS[idx], ret)
                   /\ failure' = IF summary_output(SPREADS[idx], ret).kind # "metric"
                                  THEN Failure("summary", SPREADS[idx].key, fetched)
                                  ELSE failure
                   /\ IF idx < Len(SPREADS)
                      THEN idx' = idx + 1 /\ pc' = pc
                      ELSE idx' = 1 /\ pc' = "detail"
    /\ UNCHANGED <<tblDf, tblRow>>

\* the body of the detail loop for the idx-th entry of SPREADS
DetailTab(fetched) ==
    /\ pc = "detail"
    /\ DOMAIN fetched = 1..Len(SPREADS[idx].series)
    /\ LET ret == calculate_spread(SPREADS[idx], fetched)
       IN  /\ spInfo' = SPREADS[idx]
           /\ spFetched' = fetched
           /\ spRet' = ret
           /\ spDone' = TRUE
           /\ IF ret.raised \/ detail_raises(ret)
              THEN pc' = "aborted" /\ UNCHANGED <<idx, shown, failure>>
              ELSE /\ shown' = detail_output(SPREADS[idx], ret)
                   /\ failure' = IF detail_output(SPREADS[idx], ret).kind # "metric"
                                  THEN Failure("detail", SPREADS[idx].key, fetched)
                                  ELSE failure
                   /\ IF idx < Len(SPREADS)
                      THEN idx' = idx + 1 /\ pc' = pc
                      ELSE idx' = 1 /\ pc' = "done"
    /\ UNCHANGED <<tblDf, tblRow>>

\* the table loop alone, over every frame of FetchResults
NextTable ==
    \E df \in FetchResults : \E chart \in ChartResults :
       TableRow(df, chart) /\ UNCHANGED <<cacheVars, normVars, clsVars, fgVars, rqVars, progVars, polVars, cmpVars>>

SpecTable == InitDashboard /\ [][NextTable]_vars

NextDashboard ==
    \/ \E df \in PassResults : \E chart \in ChartResults :
          TableRow(df, chart) /\ UNCHANGED <<cacheVars, normVars, clsVars, fgVars, rqVars, progVars, polVars, cmpVars>>
    \/ \E fetched \in SeqsUpTo(PassResults, 2) \ {<<>>} :
          SummaryMetric(fetched) /\ UNCHANGED <<cacheVars, normVars, clsVars, fgVars, rqVars, progVars, polVars, cmpVars>>
    \/ \E fetched \in SeqsUpTo(PassResults, 2) \ {<<>>} :
          DetailTab(fetched) /\ UNCHANGED <<cacheVars, normVars, clsVars, fgVars, rqVars, progVars, polVars, cmpVars>>

SpecDashboard == InitDashboard /\ [][NextDashboard]_vars

\* ------------------------------------------------- a pass and the registry
InitRegistry == InitDashboard

NextRegistry ==
    \/ \E df \in ChartResults : \E chart \in ChartResults :
          /\ TableRow(df, chart)
          /\ registry' = after_table_row(registry, idx)
          /\ UNCHANGED <<apiKey, upstream, cacheVars, normVars, clsVars, fgVars, rqVars, polVars, cmpVars>>
    \/ \E fetched \in SeqsUpTo(ChartResults, 2) \ {<<>>} :
          /\ SummaryMetric(fetched)
          /\ registry' = after_spread(registry, idx)
          /\ UNCHANGED <<apiKey, upstream, cacheVars, normVars, clsVars, fgVars, rqVars, polVars, cmpVars>>
    \/ \E fetched \in SeqsUpTo(ChartResults, 2) \ {<<>>} :
          /\ DetailTab(fetched)
          /\ registry' = after_spread(registry, idx)
          /\ UNCHANGED <<apiKey, upstream, cacheVars, normVars, clsVars, fgVars, rqVars, polVars, cmpVars>>

SpecRegistry == InitRegistry /\ [][NextRegistry]_vars

\* ------------------------------------------------------ the policy frame
\* the observation of a policy series at date d is the rate of that date
PolicyFrames ==
    {None} \cup
    {DataFrame([i \in 1..Cardinality(D) |->
                  [date |-> Descending(D)[i],
                   value |-> Hundredths(5, Descending(D)[i])]]) :
        D \in (SUBSET Dates) \ {{}}}
WholeFrames == {None, DataFrame([i \in 1..MaxDate |->
                  [date |-> MaxDate + 1 - i, value |-> Hundredths(5, MaxDate + 1 - i)]])}

InitPolicy ==
    /\ CacheIdle
    /\ NormIdle
    /\ ClsIdle
    /\ SpIdle
    /\ MainIdle
    /\ FgIdle
    /\ RqIdle
    /\ ProgIdle
    /\ CmpIdle
    /\ polFetched \in {f \in [1..Len(policy_series) -> PolicyFrames] :
                          \A i \in 4..Len(policy_series) : f[i] \in WholeFrames}
    /\ polRet = NoFrame
    /\ polDone = FALSE

PolicyFrame ==
    /\ ~polDone
    /\ polRet' = combined_frame(polFetched)
    /\ polDone' = TRUE
    /\ UNCHANGED polFetched

NextPolicy ==
    PolicyFrame /\ UNCHANGED <<cacheVars, normVars, clsVars, spVars, mainVars, fgVars, rqVars, progVars, cmpVars>>

SpecPolicy == InitPolicy /\ [][NextPolicy]_vars

\* ------------------------------------------ computations over the cache
\* Two runs of one computation over the same two fresh entries: the table
\* loop's delta, calculate_spread of STLFSI4, calculate_spread of SOFR-IORB.
Computations == {"delta", "single", "two"}
InfoOf(kind) == IF kind = "single" THEN SPREADS[7] ELSE SPREADS[1]
Uses(kind) == IF kind = "two" THEN 2 ELSE 1
EntryFrames == FramesOver({Hundredths(5, 30), Hundredths(5, 33)})
KeyError == [kind |-> "KeyError"]

InitCompute ==
    /\ CacheIdle
    /\ NormIdle
    /\ ClsIdle
    /\ SpIdle
    /\ MainIdle
    /\ FgIdle
    /\ RqIdle
    /\ ProgIdle
    /\ PolIdle
    /\ \E f1 \in EntryFrames, f2 \in EntryFrames :
          objects = [o \in ObjectIds |->
                       IF o = "entry1" THEN Fetched(f1)
                       ELSE IF o = "entry2" THEN Fetched(f2) ELSE Absent]
    /\ held = <<>>
    /\ results = <<>>
    /\ cmpKind \in Computations
    /\ cmpPc = "fetch"

\* the calls of fetch_fred_data, answered by the fresh entries
CachedFetch ==
    /\ cmpPc = "fetch"
    /\ LET one == cache_data_return(objects, 1)
           two == cache_data_return(one.objects, 2)
       IN  IF Uses(cmpKind) = 1
           THEN objects' = one.objects /\ held' = <<one.handle>>
           ELSE objects' = two.objects /\ held' = <<one.handle, two.handle>>
    /\ cmpPc' = IF cmpKind = "delta" THEN "return" ELSE "set_index"
    /\ UNCHANGED <<results, cmpKind>>

\* calculate_spread: df = df.set_index('date') of each fetched frame
SetIndex ==
    /\ cmpPc = "set_index"
    /\ LET one == set_index(objects, held[1], "idx1")
           two == set_index(one.objects, held[Len(held)], "idx2")
       IN  IF Uses(cmpKind) = 1
           THEN objects' = one.objects /\ held' = <<one.handle>>
           ELSE objects' = two.objects /\ held' = <<one.handle, two.handle>>
    /\ cmpPc' = "columns"
    /\ UNCHANGED <<results, cmpKind>>

\* calculate_spread: the join and the derived columns
AddColumns ==
    /\ cmpPc = "columns"
    /\ IF cmpKind = "single"
       THEN /\ objects' = setitem(objects, held[1], {"spread", "ma_4w"})
            /\ held' = held
       ELSE /\ objects' = setitem(join_object(objects, held[1], held[2]),
                                  "joined", {"spread"})
            /\ held' = <<"joined">>
    /\ cmpPc' = "return"
    /\ UNCHANGED <<results, cmpKind>>

\* the run returns: the table entry, or what calculate_spread returns for
\* the frames the cache handed out
Return ==
    /\ cmpPc = "return"
    /\ LET got == [n \in 1..Uses(cmpKind) |->
                     objects[IF n = 1 THEN "ret1" ELSE "ret2"]]
           result == IF cmpKind = "delta"
                     THEN IF IsFetched(got[1])
                          THEN table_row(DataFrame(got[1].rows)) ELSE KeyError
                     ELSE IF \A n \in 1..Uses(cmpKind) : IsFetched(got[n])
                          THEN calculate_spread(InfoOf(cmpKind),
                                  [n \in 1..Uses(cmpKind) |-> DataFrame(got[n].rows)])
                          ELSE KeyError
       IN  results' = Append(results, result)
    /\ cmpPc' = IF Len(results) = 0 THEN "fetch" ELSE "done"
    /\ UNCHANGED <<objects, held, cmpKind>>

NextCompute ==
    \/ CachedFetch /\ UNCHANGED <<cacheVars, normVars, clsVars, spVars, mainVars, fgVars, rqVars, progVars, polVars>>
    \/ SetIndex /\ UNCHANGED <<cacheVars, normVars, clsVars, spVars, mainVars, fgVars, rqVars, progVars, polVars>>
    \/ AddColumns /\ UNCHANGED <<cacheVars, normVars, clsVars, spVars, mainVars, fgVars, rqVars, progVars, polVars>>
    \/ Return /\ UNCHANGED <<cacheVars, normVars, clsVars, spVars, mainVars, fgVars, rqVars, progVars, polVars>>

SpecCompute == InitCompute /\ [][NextCompute]_vars

\* ------------------------------------------------------- the api key
\* FRED_API_KEY is read once when the script is loaded: the secret, or ""
FRED_API_KEYS == {"", "key"}

InitCredential ==
    /\ CacheIdle
    /\ NormIdle
    /\ ClsIdle
    /\ SpIdle
    /\ FgIdle
    /\ RqIdle
    /\ apiKey \in FRED_API_KEYS
    /\ upstream = FALSE
    /\ registry = Loaded
    /\ PolIdle
    /\ CmpIdle
    /\ pc = "start" /\ idx = 1 /\ failure = NoFailure
    /\ tblDf = None /\ tblRow = NoRow /\ shown = Nothing

\* fetch_fred_data(series_id, FRED_API_KEY, ...), the undecorated function,
\* called once with the answer resp waiting upstream
CallFetch(resp) ==
    /\ ~nDone
    /\ LET key == [TableKey EXCEPT !.api_key = apiKey]
       IN  /\ nRet' \in fetch_fred_data(key, resp)
           /\ upstream' = (upstream \/ SendsRequest(key))
    /\ nResp' = resp
    /\ nDone' = TRUE
    /\ UNCHANGED <<apiKey, registry>>

\* main up to the check of the api key: the notice and return, or the tabs
CheckApiKey ==
    /\ pc = "start"
    /\ IF apiKey = ""
       THEN pc' = "notice" /\ shown' = Notice
       ELSE pc' = "table" /\ shown' = shown
    /\ UNCHANGED <<idx, failure, tblDf, tblRow, progVars>>

\* a step of main's loops makes its fetches: each is answered by the cache
\* or sends a request
Fetches == upstream' \in {upstream, TRUE} /\ UNCHANGED <<apiKey, registry>>

NextCredential ==
    \/ \E resp \in {Timeout, Payload(TwoRows)} :
          CallFetch(resp) /\ UNCHANGED <<cacheVars, clsVars, spVars, mainVars, fgVars, rqVars, polVars, cmpVars>>
    \/ CheckApiKey /\ UNCHANGED <<cacheVars, normVars, clsVars, spVars, fgVars, rqVars, polVars, cmpVars>>
    \/ \E df \in ChartResults : \E chart \in ChartResults :
          TableRow(df, chart) /\ Fetches
             /\ UNCHANGED <<cacheVars, normVars, clsVars, fgVars, rqVars, polVars, cmpVars>>
    \/ \E fetched \in SeqsUpTo(ChartResults, 2) \ {<<>>} :
          SummaryMetric(fetched) /\ Fetches
             /\ UNCHANGED <<cacheVars, normVars, clsVars, fgVars, rqVars, polVars, cmpVars>>
    \/ \E fetched \in SeqsUpTo(ChartResults, 2) \ {<<>>} :
          DetailTab(fetched) /\ Fetches
             /\ UNCHANGED <<cacheVars, normVars, clsVars, fgVars, rqVars, polVars, cmpVars>>

SpecCredential == InitCredential /\ [][NextCredential]_vars

\* ------------------------------------------------------------- fear & greed
\* get_fear_greed_index as main calls it: the three try blocks in the order
\* of the code, each with every kind of answer its provider can give.
FGScores == {10, 25, 50, 75}
FGRating == "greed"
VixValues == {Hundredths(12, 0), Hundredths(12, 1), Hundredths(27, 50), Hundredths(41, 0)}

CnnResponses ==
    {Raises, HttpStatus(500), InvalidJson, Json(NoData),
     Json([fear_and_greed |-> NoData]),
     Json([fear_and_greed |-> [rating |-> FGRating]]),
     Json([fear_and_greed |-> [score |-> BadScore, rating |-> FGRating]])}
        \cup {Json([fear_and_greed |-> [score |-> s]]) : s \in {50}}
        \cup {Json([fear_and_greed |-> [score |-> s, rating |-> FGRating]]) : s \in FGScores}

AlternativeResponses ==
    {Raises, HttpStatus(500), InvalidJson, Json(NoData),
     Json([data |-> <<>>]),
     Json([data |-> <<[value_classification |-> FGRating]>>]),
     Json([data |-> <<[value |-> BadScore, value_classification |-> FGRating]>>])}
        \cup {Json([data |-> <<[value |-> s]>>]) : s \in {50}}
        \cup {Json([data |-> <<[value |-> s, value_classification |-> FGRating]>>]) :
                 s \in FGScores}

VixResults ==
    {None} \cup {DataFrame(<<[date |-> 1, value |-> v]>>) : v \in VixValues}

Asked(provider, answer) == [provider |-> provider, answer |-> answer]

InitFearGreed ==
    /\ CacheIdle
    /\ NormIdle
    /\ ClsIdle
    /\ SpIdle
    /\ MainIdle
    /\ fgPc = "cnn" /\ fgTried = <<>> /\ fgRet = FGNone
    /\ RqIdle
    /\ ProgIdle
    /\ PolIdle
    /\ CmpIdle

TryCNN(resp) ==
    /\ fgPc = "cnn"
    /\ fgTried' = Append(fgTried, Asked("CNN", resp))
    /\ IF ~cnn_provider(resp).isNone
       THEN fgRet' = cnn_provider(resp) /\ fgPc' = "done"
       ELSE fgRet' = fgRet /\ fgPc' = "alternative"

TryAlternative(resp) ==
    /\ fgPc = "alternative"
    /\ fgTried' = Append(fgTried, Asked("alternative.me", resp))
    /\ IF ~alternative_provider(resp).isNone
       THEN fgRet' = alternative_provider(resp) /\ fgPc' = "done"
       ELSE fgRet' = fgRet /\ fgPc' = "vix"

\* the third block returns its result, or falls to the final return None
TryVIX(df_vix) ==
    /\ fgPc = "vix"
    /\ fgTried' = Append(fgTried, Asked("VIX", df_vix))
    /\ fgRet' = vix_provider(df_vix)
    /\ fgPc' = "done"

NextFearGreed ==
    \/ \E resp \in CnnResponses :
          TryCNN(resp) /\ UNCHANGED <<cacheVars, normVars, clsVars, spVars, mainVars, rqVars, progVars, polVars, cmpVars>>
    \/ \E resp \in AlternativeResponses :
          TryAlternative(resp) /\ UNCHANGED <<cacheVars, normVars, clsVars, spVars, mainVars, rqVars, progVars, polVars, cmpVars>>
    \/ \E df_vix \in VixResults :
          TryVIX(df_vix) /\ UNCHANGED <<cacheVars, normVars, clsVars, spVars, mainVars, rqVars, progVars, polVars, cmpVars>>

SpecFearGreed == InitFearGreed /\ [][NextFearGreed]_vars

\* ----------------------------------------------------------- metric request
\* One metric of the page from request to display: calculate_spread calls
\* fetch_fred_data once per series id (each call sends one request and
\* blocks in requests.get until the answer arrives or the timeout raises
\* Timeout), then aligns and computes, and main classifies and shows.  A
\* call is the record of the requests it sent, the answer and the value it
\* returned.
RqInfos == {SPREADS[1], SPREADS[7]}
RqResponses == {NetError, Status(500), Payload(OneRow), Payload(TwoRows)}

Pending == [sent |-> 1, answered |-> FALSE, resp |-> Timeout, ret |-> None]
Returned(call, resp, ret) ==
    [sent |-> call.sent, answered |-> TRUE, resp |-> resp, ret |-> ret]

InitRequest ==
    /\ CacheIdle
    /\ NormIdle
    /\ ClsIdle
    /\ SpIdle
    /\ MainIdle
    /\ FgIdle
    /\ ProgIdle
    /\ PolIdle
    /\ CmpIdle
    /\ rqPc = "call"
    /\ rqInfo \in RqInfos
    /\ rqCalls = <<>>
    /\ rqWaited = 0
    /\ rqOut = Nothing

\* fetch_fred_data is called for the next series id: requests.get sends
SendRequest ==
    /\ rqPc = "call"
    /\ rqCalls' = Append(rqCalls, Pending)
    /\ rqWaited' = 0
    /\ rqPc' = "wait"
    /\ UNCHANGED <<rqInfo, rqOut>>

\* a second passes without an answer
WaitSecond ==
    /\ rqPc = "wait"
    /\ rqWaited < TIMEOUT
    /\ rqWaited' = rqWaited + 1
    /\ UNCHANGED <<rqPc, rqInfo, rqCalls, rqOut>>

\* the call returns ret for the answer resp: the next call, or the rest of
\* calculate_spread
CallReturns(resp, ret) ==
    /\ rqCalls' = [rqCalls EXCEPT ![Len(rqCalls)] = Returned(@, resp, ret)]
    /\ rqPc' = IF Len(rqCalls) < Len(rqInfo.series) THEN "call" ELSE "compute"
    /\ UNCHANGED <<rqInfo, rqWaited, rqOut>>

\* the answer arrives in time
Answer(resp) ==
    /\ rqPc = "wait"
    /\ rqWaited < TIMEOUT
    /\ \E ret \in FetchBody(resp) : CallReturns(resp, ret)

\* (variant: a request that timed out is sent once more)
TimesOutRetry ==
    /\ rqPc = "wait"
    /\ rqWaited = TIMEOUT
    /\ IF rqCalls[Len(rqCalls)].sent < 2
       THEN /\ rqCalls' = [rqCalls EXCEPT ![Len(rqCalls)].sent = @ + 1]
            /\ rqWaited' = 0
            /\ UNCHANGED <<rqPc, rqInfo, rqOut>>
       ELSE \E ret \in FetchBody(Timeout) : CallReturns(Timeout, ret)
\* the timeout passes: requests.get raises Timeout, the handler returns None
TimesOut ==
    /\ rqPc = "wait"
    /\ rqWaited = TIMEOUT
    /\ \E ret \in FetchBody(Timeout) : CallReturns(Timeout, ret)

\* the rest of calculate_spread and main's classification and display
Compute ==
    /\ rqPc = "compute"
    /\ rqOut' = summary_output(rqInfo,
                   calculate_spread(rqInfo, [i \in 1..Len(rqCalls) |-> rqCalls[i].ret]))
    /\ rqPc' = "done"
    /\ UNCHANGED <<rqInfo, rqCalls, rqWaited>>

NextRequest ==
    \/ SendRequest /\ UNCHANGED <<cacheVars, normVars, clsVars, spVars, mainVars, fgVars, progVars, polVars, cmpVars>>
    \/ WaitSecond /\ UNCHANGED <<cacheVars, normVars, clsVars, spVars, mainVars, fgVars, progVars, polVars, cmpVars>>
    \/ \E resp \in RqResponses :
          Answer(resp) /\ UNCHANGED <<cacheVars, normVars, clsVars, spVars, mainVars, fgVars, progVars, polVars, cmpVars>>
    \/ TimesOut /\ UNCHANGED <<cacheVars, normVars, clsVars, spVars, mainVars, fgVars, progVars, polVars, cmpVars>>
    \/ Compute /\ UNCHANGED <<cacheVars, normVars, clsVars, spVars, mainVars, fgVars, progVars, polVars, cmpVars>>

\* the control part of Compute, which is enabled whenever rqPc = "compute"
\* (its right-hand side is a total function of the state)
ComputeStep == rqPc = "compute" /\ rqPc' = "done"

\* Every step is a step of the one running script: the interpreter goes on
\* with the next statement, a second of waiting passes, and requests.get
\* raises Timeout when its timeout has passed.
SpecRequest ==
    /\ InitRequest
    /\ [][NextRequest]_vars
    /\ WF_rqVars(SendRequest)
    /\ WF_rqVars(WaitSecond)
    /\ WF_rqVars(TimesOut)
    /\ WF_rqPc(ComputeStep)

\* ------------------------------------------------------------ claims: cache
\* C1: failed fetches are never cached: no entry holds the None of a failed
\* fetch, so a call that follows a failed fetch of the same key always sends
\* the upstream request again, even inside the TTL.
C1_FailedFetchNeverCached ==
    /\ \A k \in Keys : cache[value_key(k)].present => ~cache[value_key(k)].val.isNone
    /\ (last.made /\ last.prev.present /\ last.prev.val.isNone) => last.sent = 1

\* C2: a call that finds the Series of a successful fetch younger than the
\* TTL returns that Series and sends no request; a call that finds it aged
\* TTL or more sends the request again (a stale Series is never returned).
C2_CacheFreshness ==
    (last.made /\ last.prev.present /\ ~last.prev.val.isNone) =>
        /\ (last.at - last.prev.at < TTL) =>
              (last.hit /\ last.sent = 0 /\ last.ret = last.prev.val)
        /\ (last.at - last.prev.at >= TTL) => (~last.hit /\ last.sent = 1)
        /\ last.hit => (last.at - last.prev.at < TTL)

\* a call made exactly TTL seconds after a successful fetch fetched again
C2_Witness_RefetchAtTTL ==
    /\ last.made /\ ~last.hit /\ last.sent = 1
    /\ last.prev.present /\ ~last.prev.val.isNone
    /\ last.at - last.prev.at = TTL
    /\ requests[last.key] = 2

\* ---------------------------------------------------- claims: normalisation
\* the raw observations that survive the coercions, with their positions
Kept(obs) == {i \in 1..Len(obs) : HasNumber(obs[i])}

\* C10: every Series returned has pairwise distinct dates, and of several
\* raw rows of one date only the last one is kept.
C10_DedupByDate ==
    (nDone /\ ~nRet.isNone) =>
        /\ \A i, j \in 1..Len(nRet.rows) :
              nRet.rows[i].date = nRet.rows[j].date => i = j
        /\ \A i \in 1..Len(nRet.rows) :
              \E k \in Kept(nResp.obs) :
                 /\ to_datetime(nResp.obs[k]) = nRet.rows[i].date
                 /\ nResp.obs[k].value = nRet.rows[i].value
                 /\ \A m \in Kept(nResp.obs) :
                       to_datetime(nResp.obs[m]) = nRet.rows[i].date => m <= k

\* ---------------------------------------------------- claims: classifier
\* lower <= value < upper, as the claims state it
Within(value, signal) ==
    /\ signal.min_val.inf = 0 - 1 \/ (signal.min_val.inf = 0 /\ value >= signal.min_val.n)
    /\ signal.max_val.inf = 1 \/ (signal.max_val.inf = 0 /\ value < signal.max_val.n)

Matching(value, signals) == {i \in 1..Len(signals) : Within(value, signals[i])}
First(S) == CHOOSE i \in S : \A j \in S : i <= j

Overlapping == << Signal("A", Num(0), Num(10)), Signal("B", Num(5), Num(15)) >>

\* C3: when some band holds the value, the message returned is that of the
\* first such band in declaration order; of two overlapping bands the one
\* declared first wins ((0,10,A),(5,15,B) classify 7 as A).
C3_DeclarationOrderPriority ==
    clsDone =>
        /\ Matching(clsValue, clsSignals) # {} =>
              clsStatus = clsSignals[First(Matching(clsValue, clsSignals))].message
        /\ (clsSignals = Overlapping /\ clsValue = Hundredths(7, 0)) => clsStatus = "A"

C3_Witness_OverlapFirstWins ==
    /\ clsDone /\ clsSignals = Overlapping /\ clsValue = Hundredths(7, 0)
    /\ Cardinality(Matching(clsValue, clsSignals)) = 2
    /\ clsStatus = "A"

\* C4: a band is lower-inclusive and upper-exclusive: a message is returned
\* only for a value with lower <= value < upper of its band, and under the
\* bands of SOFR-IORB 2 is normal, 0 is warning, 10 is tight and every
\* value below 0 is crisis.
C4_BoundaryExactness ==
    clsDone =>
        /\ clsStatus # Undetermined =>
              \E i \in 1..Len(clsSignals) :
                 clsSignals[i].message = clsStatus /\ Within(clsValue, clsSignals[i])
        /\ clsSignals = SPREADS[1].signals =>
              /\ clsValue = Hundredths(2, 0) => clsStatus = "normal"
              /\ clsValue = 0 => clsStatus = "warning"
              /\ clsValue = Hundredths(10, 0) => clsStatus = "tight"
              /\ clsValue < 0 => clsStatus = "crisis"

C4_Witness_TwoIsNormal ==
    /\ clsDone /\ clsSignals = SPREADS[1].signals
    /\ clsValue = Hundredths(2, 0) /\ clsStatus = "normal"

\* -------------------------------------------------------- claims: spread
\* the observation of a series that is the most recent one at or before d
HasObservationBy(rows, d) == \E i \in 1..Len(rows) : rows[i].date <= d
MostRecentBy(rows, d) ==
    (CHOOSE r \in Range(rows) :
        r.date <= d /\ \A q \in Range(rows) : q.date <= d => q.date <= r.date).value

BothFetched == spDone /\ ~spInfo.is_single_series
                  /\ ~spFetched[1].isNone /\ ~spFetched[2].isNone

\* C5: the frame of two fetched series holds exactly the dates of the union
\* of their dates at which both have an observation at or before the date,
\* once each, and each side's value there is that series' most recent
\* observation at or before the date (A = {d1, d3}, B = {d2} gives d2 and d3
\* with A(d2) = A's value of d1, and no d1).
C5_AlignerForwardFill ==
    BothFetched =>
        LET A == spFetched[1].rows
            B == spFetched[2].rows
            E == {d \in DatesOf(A) \cup DatesOf(B) :
                    HasObservationBy(A, d) /\ HasObservationBy(B, d)}
            df == spRet.df
        IN  /\ ~spRet.isNone
            /\ DatesOf(df) = E
            /\ Len(df) = Cardinality(E)
            /\ \A i \in 1..Len(df) :
                  /\ df[i].c1 = MostRecentBy(A, df[i].date)
                  /\ df[i].c2 = MostRecentBy(B, df[i].date)
            /\ (spFetched[1] = ExampleA /\ spFetched[2] = ExampleB) =>
                  /\ DatesOf(df) = {2, 3}
                  /\ \E i \in 1..Len(df) :
                        df[i].date = 2 /\ df[i].c1 = Hundredths(5, 30)

C5_Witness_ForwardFilled ==
    /\ BothFetched /\ spFetched[1] = ExampleA /\ spFetched[2] = ExampleB
    /\ DatesOf(spRet.df) = {2, 3}
    /\ \E i \in 1..Len(spRet.df) :
          /\ spRet.df[i].date = 2
          /\ spRet.df[i].c1 = Hundredths(5, 30)
          /\ spRet.df[i].c2 = Hundredths(5, 31)

RECURSIVE SumSpread(_, _)
SumSpread(df, W) ==
    IF W = {} THEN 0
    ELSE LET i == CHOOSE k \in W : TRUE
         IN  df[i].spread + SumSpread(df, W \ {i})

\* the rows of df that are the row of date d and the up to three
\* observations that precede it in time
TrailingWindow(df, d) ==
    LET P == {j \in 1..Len(df) : df[j].date <= d}
    IN  {j \in P : Cardinality({k \in P : df[k].date > df[j].date}) < 4}

\* C6: the rolling average of the stress index at a date is the mean of the
\* value of that date and of up to three observations that precede it in
\* time, and it is defined at every date.
C6_RollingAverageTrailing ==
    (spDone /\ spInfo.is_single_series /\ ~spRet.isNone) =>
        \A i \in 1..Len(spRet.df) :
           LET W == TrailingWindow(spRet.df, spRet.df[i].date)
               ma == spRet.df[i].ma_4w
           IN  /\ ~ma.nan
               /\ ma.sum * Cardinality(W) = SumSpread(spRet.df, W) * ma.n

\* C7: every row's spread is (A - B) * multiplier, and latest_value is the
\* spread of the most recent date of the frame.
C7_PairwiseSpread ==
    (BothFetched /\ ~spRet.isNone) =>
        LET df == spRet.df
        IN  /\ \A i \in 1..Len(df) :
                  df[i].spread = (df[i].c1 - df[i].c2) * spInfo.multiplier
            /\ \A i \in 1..Len(df) :
                  (\A j \in 1..Len(df) : df[j].date <= df[i].date) =>
                      spRet.latest_value = Value(df[i].spread)

\* a frame of two dates with different spreads, of series of different dates
C7_Witness_LatestOfTwo ==
    /\ BothFetched /\ ~spRet.isNone
    /\ DatesOf(spFetched[1].rows) # DatesOf(spFetched[2].rows)
    /\ Len(spRet.df) >= 2
    /\ spRet.df[1].spread # spRet.df[Len(spRet.df)].spread
    /\ spRet.df[1].date > spRet.df[Len(spRet.df)].date
    /\ spRet.latest_value = Value(spRet.df[1].spread)
    /\ spRet.latest_value.v # 0

\* ---------------------------------------------------------- claims: main
\* the value of the most recent date, and of the most recent date but one
ValueOfRank(rows, k) ==
    (CHOOSE r \in Range(rows) :
        Cardinality({q \in Range(rows) : q.date > r.date}) = k - 1).value

\* C8: for a series of two or more observations the table's change is the
\* value of the most recent date minus the value of the second most recent
\* date, and the arrow shown matches its sign (up iff > 0, down iff < 0,
\* none iff = 0).
C8_DeltaCorrectness ==
    (tblRow.made /\ ~tblDf.isNone /\ Len(tblDf.rows) >= 2) =>
        LET delta == ValueOfRank(tblDf.rows, 1) - ValueOfRank(tblDf.rows, 2)
        IN  /\ ~tblRow.na
            /\ tblRow.change = delta
            /\ (tblRow.shown_change.arrow = "up") <=> (delta > 0)
            /\ (tblRow.shown_change.arrow = "down") <=> (delta < 0)
            /\ (tblRow.shown_change.arrow = "none") <=> (delta = 0)

\* a row of three observations whose latest value fell
C8_Witness_FallShown ==
    /\ tblRow.made /\ ~tblDf.isNone /\ Len(tblDf.rows) = 3
    /\ tblRow.change < 0 /\ tblRow.shown_change.arrow = "down"
    /\ tblDf.rows[3].value < tblDf.rows[2].value

\* C9: in a pass, the spread of a pair is unavailable exactly when one of
\* its fetches failed; an entry whose fetches all succeed (one series or
\* two) reports a value and a status; and no failure ends the pass: the
\* loops go on to the next entry.
AllFetched == \A i \in 1..Len(spFetched) : ~spFetched[i].isNone
C9_PartialFailureIsolation ==
    /\ pc # "aborted"
    /\ (spDone /\ pc \in {"summary", "detail", "done"}) =>
          /\ AllFetched <=> (shown.kind = "metric")
          /\ AllFetched => (~spRet.isNone /\ ~spRet.latest_value.none
                              /\ shown.value = spRet.latest_value.v
                              /\ shown.status # "")
          /\ ~AllFetched => (spRet.isNone /\ shown.kind \in {"nothing", "error"})

\* SOFR-IORB was unavailable because IORB failed while SOFR succeeded, and
\* the later entry SOFR-RRP of the same loop reports a value
C9_Witness_ValueAfterFailure ==
    /\ pc = "summary" /\ idx = 4 /\ spDone
    /\ failure = [where |-> "summary", key |-> "SOFR-IORB",
                  fetched_ok |-> <<TRUE, FALSE>>]
    /\ spInfo.key = "SOFR-RRP" /\ AllFetched /\ shown.kind = "metric"

\* ------------------------------------------ claims: normalisation (errors)
\* a raw observation without its "date" key or without its "value" key
Incomplete(row) == "date" \notin DOMAIN row \/ "value" \notin DOMAIN row

\* C11: when some raw observation of the payload lacks the date field or the
\* value field, normalisation fails: no Series is returned.
C11_RejectsIncompleteInput ==
    (/\ nDone
     /\ nResp.kind = "status" /\ nResp.code = HTTP_OK /\ nResp.hasObs
     /\ \E i \in 1..Len(nResp.obs) : Incomplete(nResp.obs[i]))
        => nRet.isNone

\* a raw value that parses as a number
Parsable(row) == "value" \in DOMAIN row /\ row.value \in Values

\* the payload reaches the value coercion: status 200, "observations"
\* present and not empty, a date column whose dates all parse
ReachesCoercion(resp) ==
    /\ resp.kind = "status" /\ resp.code = HTTP_OK
    /\ resp.hasObs /\ Len(resp.obs) > 0
    /\ \E i \in 1..Len(resp.obs) : "date" \in DOMAIN resp.obs[i]
    /\ \A i \in 1..Len(resp.obs) :
          "date" \in DOMAIN resp.obs[i] => resp.obs[i].date \in Dates

\* C12: of a payload that reaches the value coercion, the Series returned
\* holds exactly the observations whose value parses as a number, each as
\* often as it was received and with its own value (an unparsable value is
\* neither zero-filled nor fatal); when none parses the fetch returns None,
\* never an empty Series.
C12_ValueCoercion ==
    (nDone /\ ReachesCoercion(nResp)) =>
        LET parsable == {i \in 1..Len(nResp.obs) : Parsable(nResp.obs[i])}
        IN  /\ nRet.isNone <=> parsable = {}
            /\ ~nRet.isNone =>
                 /\ Len(nRet.rows) = Cardinality(parsable)
                 /\ \A k \in parsable :
                      Cardinality({i \in 1..Len(nRet.rows) :
                                     /\ nRet.rows[i].value = nResp.obs[k].value
                                     /\ nRet.rows[i].date = to_datetime(nResp.obs[k])})
                        = Cardinality({m \in parsable :
                                     /\ nResp.obs[m].value = nResp.obs[k].value
                                     /\ to_datetime(nResp.obs[m]) = to_datetime(nResp.obs[k])})

\* a payload of one "." and one number came back as the one-row Series
C12_Witness_DotDropped ==
    /\ nDone /\ ReachesCoercion(nResp)
    /\ Len(nResp.obs) = 2
    /\ nResp.obs[1] = [date |-> 2, value |-> Dot]
    /\ nResp.obs[2] = [date |-> 1, value |-> 1]
    /\ nRet = DataFrame(<<[date |-> 1, value |-> 1]>>)

\* ------------------------------------------- claims: classifier (totality)
\* two bands that leave the values from 5 up to 10 uncovered
Gapped == << Signal("A", Num(0), Num(5)), Signal("B", Num(10), Num(15)) >>

\* C13: get_signal_status returns for every number and every list of bands;
\* it returns the fallback text exactly when no band of the list holds the
\* value (lower <= value < upper), and a band's message otherwise.
C13_ClassifierTotality ==
    clsDone =>
        /\ clsStatus = Undetermined <=> Matching(clsValue, clsSignals) = {}
        /\ clsStatus # Undetermined =>
              \E i \in 1..Len(clsSignals) : clsSignals[i].message = clsStatus

\* 7 lies in the gap of two bands and was given the fallback text
C13_Witness_GapUndetermined ==
    /\ clsDone /\ clsSignals = Gapped /\ clsValue = Hundredths(7, 0)
    /\ Matching(clsValue, clsSignals) = {}
    /\ clsStatus = Undetermined

\* ---------------------------------------------------- claims: cache (clear)
\* C14: after st.cache_data.clear() no key has an entry until it is called
\* again, and the first call of a key after the clear sends the upstream
\* request, however recently the key was fetched before the clear.
C14_ClearDiscardsAll ==
    /\ \A k \in cleared : ~cache[value_key(k)].present
    /\ (last.made /\ last.cleared) =>
          (~last.hit /\ ~last.prev.present /\ last.sent = 1)

\* a key fetched at time 0, cleared, and called again at time 0 was fetched
\* a second time
C14_Witness_RefetchRightAfterClear ==
    /\ last.made /\ last.cleared /\ last.sent = 1
    /\ now = 0 /\ requests[last.key] = 2

\* C16: an entry is found only under the arguments of the call that computed
\* it: a call served from the cache gets a value computed for exactly its
\* own (series id, limit, start date, end date), so the table fetch
\* (limit=10, no dates) and the chart fetch (date range) of one series never
\* share an entry.
C16_KeyIsolation ==
    /\ \A k \in Keys :
          cache[value_key(k)].present => cache[value_key(k)].args = k
    /\ (last.made /\ last.hit) => last.prev.args = last.key
    /\ value_key(TableKey) # value_key(ChartKey)

\* the chart call was served its own entry while the table call's entry of
\* the same series held another Series
C16_Witness_TwoEntriesOneSeries ==
    /\ last.made /\ last.hit /\ last.key = ChartKey
    /\ TableKey.series_id = ChartKey.series_id
    /\ cache[value_key(TableKey)].present
    /\ cache[value_key(ChartKey)].present
    /\ cache[value_key(TableKey)].val # cache[value_key(ChartKey)].val
    /\ last.ret = cache[value_key(ChartKey)].val
    /\ ~last.ret.isNone

\* ------------------------------------------------- claims: cache (sessions)
\* the Series a successful fetch can return
SuccessfulResults ==
    {v \in UNION {FetchBody(r) : r \in SessionResponses} : ~v.isNone}

\* C15: with the sessions' calls interleaved, every entry is the whole Series
\* of one successful fetch with the time it was written at, and every call
\* returns either the entry it found, whole, or the whole result of its own
\* fetch; more requests than needed is the only irregularity.
C15_WholeEntriesUnderInterleaving ==
    /\ \A k \in Keys :
          cache[value_key(k)].present =>
             /\ cache[value_key(k)].val \in SuccessfulResults
             /\ cache[value_key(k)].at <= now
    /\ last.made =>
          /\ last.hit => (last.ret = last.prev.val /\ last.ret \in SuccessfulResults)
          /\ ~last.hit => last.ret \in SuccessfulResults \cup {None}

\* ------------------------------------------------- claims: fear & greed
ProviderOrder == <<"CNN", "alternative.me", "VIX">>
SourceOf(provider) ==
    CASE provider = "CNN" -> "CNN API"
      [] provider = "alternative.me" -> "Crypto F&G"
      [] provider = "VIX" -> "VIX"

\* an answer of status 200 that decodes
Decodes(a) == a.kind = "status" /\ a.code = HTTP_OK /\ a.valid

\* the provider's answer carries a score the provider's way: the expected
\* fields with a numeric score, or an available VIX series
Succeeded(asked) ==
    CASE asked.provider = "CNN" ->
            /\ Decodes(asked.answer)
            /\ "fear_and_greed" \in DOMAIN asked.answer.data
            /\ {"score", "rating"} \subseteq DOMAIN asked.answer.data.fear_and_greed
            /\ asked.answer.data.fear_and_greed.score # BadScore
      [] asked.provider = "alternative.me" ->
            /\ Decodes(asked.answer)
            /\ "data" \in DOMAIN asked.answer.data
            /\ Len(asked.answer.data.data) > 0
            /\ {"value", "value_classification"} \subseteq DOMAIN asked.answer.data.data[1]
            /\ asked.answer.data.data[1].value # BadScore
      [] asked.provider = "VIX" -> ~asked.answer.isNone

\* the score that answer gives
ScoreOf(asked) ==
    CASE asked.provider = "CNN" -> asked.answer.data.fear_and_greed.score
      [] asked.provider = "alternative.me" -> asked.answer.data.data[1].value
      [] asked.provider = "VIX" -> vix_score(asked.answer.rows[1].value)

\* C17: the providers are asked in the order CNN, alternative.me, VIX; one
\* is asked only after every provider before it has failed; the result
\* returned is that of the first provider that succeeds, and its source
\* field names the provider whose answer gave the score.
C17_ProviderOrder ==
    /\ Len(fgTried) <= 3
    /\ \A i \in 1..Len(fgTried) :
          /\ fgTried[i].provider = ProviderOrder[i]
          /\ i < Len(fgTried) => ~Succeeded(fgTried[i])
    /\ (fgPc = "done" /\ Succeeded(fgTried[Len(fgTried)])) =>
          /\ ~fgRet.isNone
          /\ fgRet.source = SourceOf(fgTried[Len(fgTried)].provider)
          /\ fgRet.score = ScoreOf(fgTried[Len(fgTried)])
    /\ (fgPc # "done" /\ fgTried # <<>>) => ~Succeeded(fgTried[Len(fgTried)])

\* CNN failed, alternative.me answered and its result was returned without
\* the VIX being asked
C17_Witness_SecondProviderAnswers ==
    /\ fgPc = "done" /\ Len(fgTried) = 2
    /\ fgTried[1].answer = HttpStatus(500)
    /\ Succeeded(fgTried[2])
    /\ fgRet.source = "Crypto F&G" /\ fgRet.score = 25 /\ fgRet.status = "Fear"

\* C18: get_fear_greed_index returns None exactly when all three providers
\* were asked and all three failed, whatever the kinds of the failures
\* (exception, status other than 200, body without the expected fields,
\* VIX series unavailable); it always returns.
C18_ExhaustionGivesNone ==
    fgPc = "done" =>
        (fgRet.isNone <=>
            /\ Len(fgTried) = 3
            /\ \A i \in 1..3 : ~Succeeded(fgTried[i]))

\* an exception, a payload without its fields and an unavailable VIX series
\* ended in None
C18_Witness_ThreeKindsOfFailure ==
    /\ fgPc = "done" /\ fgRet.isNone /\ Len(fgTried) = 3
    /\ fgTried[1].answer = Raises
    /\ fgTried[2].answer = Json([data |-> <<[value |-> 50]>>])
    /\ fgTried[3].answer = None

\* ------------------------------------------------ claims: fetch failures
\* the three failure kinds of the data source: the request raises (network
\* error or timeout), the status is not 200, or the payload is malformed
\* (no "observations" key, or observations none of which has a date, or
\* none of which has a value)
NetworkFailure(resp) == resp.kind \in {"timeout", "error"}
StatusFailure(resp) == resp.kind = "status" /\ resp.code # HTTP_OK
MalformedPayload(resp) ==
    /\ resp.kind = "status" /\ resp.code = HTTP_OK
    /\ \/ ~resp.hasObs
       \/ /\ Len(resp.obs) > 0
          /\ \/ \A i \in 1..Len(resp.obs) : "date" \notin DOMAIN resp.obs[i]
             \/ \A i \in 1..Len(resp.obs) : "value" \notin DOMAIN resp.obs[i]

\* C19: for a network error or timeout, a status other than 200, and a
\* malformed payload alike, fetch_fred_data returns None: the failure is
\* the value returned, the call itself completes.
C19_FailuresAreValues ==
    (nDone /\ (NetworkFailure(nResp) \/ StatusFailure(nResp) \/ MalformedPayload(nResp)))
        => nRet = None

\* a payload whose observations carry no value field came back as None
C19_Witness_MalformedIsNone ==
    /\ nDone /\ MalformedPayload(nResp) /\ nResp.hasObs
    /\ Len(nResp.obs) = 2
    /\ \A i \in 1..2 : DOMAIN nResp.obs[i] = {"date"} /\ nResp.obs[i].date \in Dates
    /\ nRet = None

\* ------------------------------------------------ claims: main (table)
\* fewer than two observations, or no frame at all
Insufficient(df) == df.isNone \/ Len(df.rows) < 2

\* C20: every pass of the table loop appends an entry and goes on to the
\* next series (after the last one, to the next part of the page); for a
\* series that is unavailable or has fewer than two observations the entry
\* reports N/A for the current value, the previous value, the change and
\* both dates, with the numeric change 0, and nothing is raised.
C20_InsufficientDataIsNA ==
    [][(pc = "table") =>
          /\ tblRow'.made
          /\ Insufficient(tblDf') =>
                /\ tblRow'.na
                /\ tblRow'.shown_change = NotAvailable
                /\ tblRow'.change = 0
          /\ pc' # "aborted"
          /\ IF idx < Len(SERIES_INFO)
             THEN pc' = "table" /\ idx' = idx + 1
             ELSE pc' = "summary"]_vars

\* a series of one observation got its N/A entry and the loop stands at a
\* later series
C20_Witness_OneObservation ==
    /\ pc = "table" /\ idx > 1
    /\ tblRow.made /\ tblRow.na /\ tblRow.shown_change = NotAvailable
    /\ ~tblDf.isNone /\ Len(tblDf.rows) = 1

\* ------------------------------------------------ claims: metric request
\* an answer that is a failure: an exception or a status other than 200
FailedAnswer(resp) == resp.kind \in {"timeout", "error"} \/ resp.code # HTTP_OK

\* C21: every call of the fetch sends one request and no more, the request
\* waits at most the timeout, a call whose request timed out or failed
\* returned None (once), and the metric request always comes to its end:
\* a value with its status, or nothing to show.
C21_NoRetryNoHang ==
    /\ [](\A i \in 1..Len(rqCalls) :
            /\ rqCalls[i].sent = 1
            /\ (rqCalls[i].answered /\ FailedAnswer(rqCalls[i].resp)) =>
                  rqCalls[i].ret = None)
    /\ [](rqWaited <= TIMEOUT /\ Len(rqCalls) <= Len(rqInfo.series))
    /\ [](rqPc = "done" => rqOut.kind \in {"metric", "nothing"})
    /\ <>(rqPc = "done")

\* the first request timed out after the full wait, the second was
\* answered, and the metric ended without a value
C21_Witness_TimeoutEndsUnavailable ==
    /\ rqPc = "done" /\ Len(rqCalls) = 2
    /\ rqCalls[1].resp = Timeout /\ rqCalls[1].ret = None /\ rqCalls[1].sent = 1
    /\ rqCalls[2].resp = Payload(TwoRows) /\ ~rqCalls[2].ret.isNone
    /\ rqOut = Nothing

\* ---------------------------------------------------- claims: end to end
\* the value of the observation of rows that is the most recent at date d
AsOf(rows, d) ==
    LET i == CHOOSE i \in 1..Len(rows) :
                /\ rows[i].date <= d
                /\ \A j \in 1..Len(rows) : rows[j].date <= d => rows[j].date <= rows[i].date
    IN  rows[i].value
MostRecent(rows1, rows2) ==
    CHOOSE d \in DatesOf(rows1) \cup DatesOf(rows2) :
        \A e \in DatesOf(rows1) \cup DatesOf(rows2) : e <= d
LabelOf(value, signals) ==
    IF Matching(value, signals) = {} THEN Undetermined
    ELSE signals[First(Matching(value, signals))].message

A_0105 == DataFrame(<<[date |-> 2, value |-> Hundredths(5, 33)],
                      [date |-> 1, value |-> Hundredths(5, 30)]>>)
B_0105 == DataFrame(<<[date |-> 2, value |-> Hundredths(5, 31)],
                      [date |-> 1, value |-> Hundredths(5, 31)]>>)

\* C22: for a two-series definition the latest value is (A - B at the most
\* recent aligned date) * multiplier and the label shown with it is the
\* classification of that value under the definition's bands; for
\* A = {01-05: 5.33, 01-04: 5.30}, B = {01-05: 5.31, 01-04: 5.31}, the
\* multiplier 100 and the bands of SOFR-IORB the value is 2.0 and the label
\* is normal.
C22_EndToEndSpread ==
    spDone =>
        LET d == MostRecent(spFetched[1].rows, spFetched[2].rows)
            v == (AsOf(spFetched[1].rows, d) - AsOf(spFetched[2].rows, d)) * spInfo.multiplier
        IN  /\ spRet.latest_value = Value(v)
            /\ spRet.df[1].date = d
            /\ shown # Nothing => shown = Metric(v, LabelOf(v, spInfo.signals))
            /\ (spInfo = ScaledBy100 /\ spFetched = <<A_0105, B_0105>>) =>
                  /\ v = Hundredths(2, 0)
                  /\ shown # Nothing => shown = Metric(Hundredths(2, 0), "normal")

C22_Witness_ExampleShown ==
    /\ spDone /\ spInfo = ScaledBy100 /\ spFetched = <<A_0105, B_0105>>
    /\ spRet.latest_value = Value(Hundredths(2, 0))
    /\ shown = Metric(Hundredths(2, 0), "normal")

\* ---------------------------------------------------- claims: the api key
\* C23: when the api key is absent, fetch_fred_data returns None without an
\* upstream request, and main shows the notice and returns: no table row,
\* no spread and no metric is computed, and nothing is raised.
C23_MissingCredential ==
    apiKey = "" =>
        /\ ~upstream
        /\ nDone => nRet = None
        /\ pc \in {"start", "notice"}
        /\ pc = "notice" => shown = Notice
        /\ pc = "start" => shown = Nothing
        /\ ~spDone /\ tblRow = NoRow /\ tblDf = None /\ idx = 1
        /\ failure = NoFailure

C23_Witness_NoticeAndNoRequest ==
    /\ apiKey = "" /\ pc = "notice" /\ shown = Notice
    /\ nDone /\ nResp = Payload(TwoRows) /\ nRet = None
    /\ ~upstream

\* ---------------------------------------------------- claims: date range
\* C24: every upstream request of the session carries the selected start and
\* end date as its observation start and end, the table fetch that feeds the
\* balance-sheet deltas included.
C24_RangeParameterizesEveryFetch ==
    (last.made /\ last.sent = 1) =>
        /\ request_params(last.key).observation_start = Selected.start_date
        /\ request_params(last.key).observation_end = Selected.end_date

\* ---------------------------------------------------- claims: the registry
\* C25: SPREADS and SERIES_INFO are in every reachable state what they were
\* when the script was loaded: the same keys, series ids, multipliers and
\* band lists, whatever part of the page has been built.
C25_RegistryImmutable ==
    /\ DOMAIN registry.SPREADS = 1..Len(SPREADS)
    /\ DOMAIN registry.SERIES_INFO = 1..Len(SERIES_INFO)
    /\ \A i \in 1..Len(SPREADS) :
          /\ DOMAIN registry.SPREADS[i] =
                {"key", "series", "multiplier", "signals"}
                   \cup (IF SPREADS[i].is_single_series THEN {"is_single_series"} ELSE {})
          /\ \A k \in DOMAIN registry.SPREADS[i] : registry.SPREADS[i][k] = SPREADS[i][k]
    /\ \A j \in 1..Len(SERIES_INFO) :
          /\ DOMAIN registry.SERIES_INFO[j] =
                {"id", "show_chart"}
                   \cup (IF SERIES_INFO[j].is_quarterly THEN {"is_quarterly"} ELSE {})
          /\ \A k \in DOMAIN registry.SERIES_INFO[j] :
                registry.SERIES_INFO[j][k] = SERIES_INFO[j][k]

C25_Witness_WholePassBuilt ==
    /\ pc = "done" /\ spDone /\ tblRow # NoRow
    /\ registry = Loaded

\* ------------------------------------------------ claims: all or nothing
\* C26: calculate_spread returns (None, None, None), or a frame that is not
\* empty together with a numeric latest value; for two series that both have
\* observations the frame is not empty and its first row is the latest date
\* of either series, so no view is handed a frame without a latest value.
C26_AllOrNothing ==
    spDone =>
        /\ ~spRet.raised
        /\ \/ spRet = NoSpread
           \/ /\ ~spRet.isNone
              /\ Len(spRet.df) > 0
              /\ ~spRet.latest_value.none
              /\ Len(spRet.components) = Len(spRet.df)
        /\ (\A i \in DOMAIN spFetched : ~spFetched[i].isNone) => ~spRet.isNone
        /\ (~spInfo.is_single_series /\ ~spFetched[1].isNone /\ ~spFetched[2].isNone) =>
              /\ Len(spRet.df) > 0
              /\ spRet.df[1].date = MostRecent(spFetched[1].rows, spFetched[2].rows)

\* the two series have no date in common, and the later one is the second
C26_Witness_DisjointDates ==
    /\ spDone /\ ~spInfo.is_single_series
    /\ ~spFetched[1].isNone /\ ~spFetched[2].isNone
    /\ DatesOf(spFetched[1].rows) = {1}
    /\ DatesOf(spFetched[2].rows) = {2, 3}
    /\ Len(spRet.df) = 2 /\ spRet.df[1].date = 3
    /\ ~spRet.latest_value.none

\* ---------------------------------------------------- claims: partition
DeclaredLists == {SPREADS[i].signals : i \in 1..Len(SPREADS)}
Reordered(signals, p) == [i \in 1..Len(signals) |-> signals[p[i]]]

\* C27: each of the seven band lists of SPREADS partitions the number line:
\* a finite value lies in exactly one band of the list, so its status is
\* that band's message, never the undetermined sentinel, and is the same
\* under every order of the bands.
C27_BandsPartition ==
    (clsDone /\ clsSignals \in DeclaredLists) =>
        /\ Cardinality(Matching(clsValue, clsSignals)) = 1
        /\ clsStatus # Undetermined
        /\ \A i \in Matching(clsValue, clsSignals) : clsStatus = clsSignals[i].message
        /\ \A p \in Permutations(1..Len(clsSignals)) :
              get_signal_status(clsValue, Reordered(clsSignals, p)) = clsStatus

\* a list declared from the top band down, and a value on a shared bound
C27_Witness_SharedBound ==
    /\ clsDone /\ clsSignals = SPREADS[2].signals
    /\ clsValue = 0 - Hundredths(10, 0)
    /\ Matching(clsValue, clsSignals) = {2}
    /\ clsStatus = "normal"

\* ---------------------------------------------------- claims: basis points
\* C28: for every two-series definition the value shown with the unit bp is
\* the difference of the two percent rates in basis points: a difference of
\* d hundredths of a percent is the number d (0.02 percentage points: 2 bp).
C28_BasisPointScaling ==
    BothFetched =>
        /\ \A i \in 1..Len(spRet.df) :
              spRet.df[i].spread = Hundredths(spRet.df[i].c1 - spRet.df[i].c2, 0)
        /\ ~spRet.latest_value.none =>
              spRet.latest_value.v = Hundredths(spRet.df[1].c1 - spRet.df[1].c2, 0)

\* ---------------------------------------------------- claims: policy frame
Available == {i \in 1..Len(polFetched) : ~polFetched[i].isNone}
UnionDates == UNION {DatesOf(polFetched[i].rows) : i \in Available}
ResolvedDates ==
    {d \in UnionDates : \A i \in Available : HasObservationBy(polFetched[i].rows, d)}

\* C29: the dates of the combined policy frame are the dates of the union
\* of the available series at which every series has an observation at or
\* before the date; each series shows at a date its most recent observation
\* at or before it, never a later one; the row reported as latest is the
\* most recent of these dates.
C29_PolicyFrameAlignment ==
    (polDone /\ polRet.made) =>
        /\ DatesOf(polRet.df) = ResolvedDates
        /\ \A r \in 1..Len(polRet.df) : \A k \in 1..Len(polRet.columns) :
              polRet.df[r].cols[k] =
                 Cell(MostRecentBy(polFetched[polRet.columns[k]].rows, polRet.df[r].date))
        /\ ResolvedDates # {} =>
              /\ polRet.has_latest
              /\ \A d \in ResolvedDates : d <= polRet.latest

\* ---------------------------------------------------- claims: cached data
\* C30: a computation leaves every cache entry as it was: no step changes an
\* entry, the frame the cache handed out keeps its index, its two columns
\* and its rows (the derived columns, the date index and the renamed
\* columns belong to other frames), and two runs of a computation over the
\* same entries return the same result.
C30_ComputationLeavesCacheAlone ==
    /\ [][objects'["entry1"] = objects["entry1"] /\ objects'["entry2"] = objects["entry2"]]_vars
    /\ [](cmpKind \in Computations =>
            /\ objects["entry1"].index = "range" /\ objects["entry2"].index = "range"
            /\ objects["entry1"].columns = {"date", "value"}
            /\ objects["entry2"].columns = {"date", "value"}
            /\ objects["ret1"] \in {Absent, objects["entry1"]}
            /\ objects["ret2"] \in {Absent, objects["entry2"]}
            /\ Len(results) = 2 => results[1] = results[2])

C30_Witness_TwoRunsAgree ==
    /\ cmpPc = "done" /\ cmpKind = "single"
    /\ Len(results) = 2 /\ results[1] = results[2]
    /\ ~results[1].isNone /\ Len(results[1].df) = 2
    /\ objects["idx1"].columns = {"value", "spread", "ma_4w"}
    /\ objects["ret1"] = objects["entry1"]
====
